---- MODULE Spec2Model ----
(***************************************************************************)
(* Model of github.com/yinqf/go-pkg, package crud (generic CRUD service    *)
(* over GORM) and its helpers, and package distlock (a Redis lock).        *)
(*                                                                         *)
(* Go strings are modelled as sequences of one-character strings, so that  *)
(* trimming, splitting, prefix tests and case folding are computed the way *)
(* the Go code computes them.  <<"a","_","_","e","q">> is the key a__eq.    *)
(***************************************************************************)
EXTENDS Integers, Sequences, FiniteSets, TLC

VARIABLES
    key,        \* parseFilterKey: the raw filter key handed in
    keyOut,     \* parseFilterKey: <<>> before the call, <<result>> after
    rawOrder,   \* parseOrderOption: the raw ordering directive handed in
    optOut,     \* parseOrderOption: <<>> before the call, <<result>> after
    orders,     \* sanitizeOrders: the list of OrderOption handed in
    allowedO,   \* sanitizeOrders: the allowlist handed in (set of column names)
    ordersOut,  \* sanitizeOrders: <<>> before the call, <<result list>> after
    filters,    \* ApplyFilters: the filter map handed in (key -> list of raw values)
    allowedF,   \* ApplyFilters: the allowlist handed in (set of column names)
    visitF,     \* ApplyFilters: the order in which the map's keys were visited
    queryOut,   \* ApplyFilters: <<>> before the call, <<built query>> after
    rtype,      \* Service[T]: the record type T the service is instantiated with
    rows,       \* the store: the rows of T's table, each a function column -> value
    autoInc,    \* the store: the next auto-increment primary key
    last,       \* the last call on the service: its inputs, the requests it sent
                \* to the store, the store contents before it, and what it returned
    redisKey,   \* distlock: the lock key in Redis, <<>> when absent, else
                \* <<[val, left]>>: its value and the time left before it expires
    inv         \* distlock: the invocations of Do, each with its position in Do,
                \* whether it takes the lock (ttl > 0), what its SetNX and release
                \* did, and what it returned

vars == <<key, keyOut, rawOrder, optOut, orders, allowedO, ordersOut,
          filters, allowedF, visitF, queryOut, rtype, rows, autoInc, last,
          redisKey, inv>>

keyVars   == <<key, keyOut>>
orderVars == <<rawOrder, optOut>>
sanVars   == <<orders, allowedO, ordersOut>>
filterVars == <<filters, allowedF, visitF, queryOut>>
storeVars == <<rtype, rows, autoInc, last>>
pureVars  == <<keyVars, orderVars, sanVars, filterVars>>
lockVars  == <<redisKey, inv>>

(***************************************************************************)
(* Bounds of the model.                                                    *)
(***************************************************************************)
MaxKeyLen == 4
MaxRawLen == 4
MaxOrders == 3
MaxFilterKeys == 2
MaxId == 2
MaxRows == 12
MaxValues == 2
MaxQueryKeys == 3
MaxInvocations == 3
MaxTtl == 2
MaxWrites == 1

(***************************************************************************)
(* package strings                                                         *)
(***************************************************************************)
Max(S) == CHOOSE x \in S : \A y \in S : y <= x

Min(S) == CHOOSE x \in S : \A y \in S : x <= y

\* unicode.IsSpace restricted to the white space the model's alphabets hold.
IsSpace(c) == c \in {" ", "\t"}

\* strings.TrimSpace: drop leading and trailing white space.
TrimSpace(s) ==
    LET keep == {i \in 1..Len(s) : ~IsSpace(s[i])}
    IN  IF keep = {} THEN <<>> ELSE SubSeq(s, Min(keep), Max(keep))

\* unicode.ToLower on the letters A to Z; every other character is its own
\* lower case.
UpperToLower ==
    [A |-> "a", B |-> "b", C |-> "c", D |-> "d", E |-> "e", F |-> "f", G |-> "g",
     H |-> "h", I |-> "i", J |-> "j", K |-> "k", L |-> "l", M |-> "m", N |-> "n",
     O |-> "o", P |-> "p", Q |-> "q", R |-> "r", S |-> "s", T |-> "t", U |-> "u",
     V |-> "v", W |-> "w", X |-> "x", Y |-> "y", Z |-> "z"]

LowerChar(c) == IF c \in DOMAIN UpperToLower THEN UpperToLower[c] ELSE c

\* strings.ToLower
ToLower(s) == [i \in 1..Len(s) |-> LowerChar(s[i])]

\* strings.LastIndex: 0-based index of the last instance of sub in s, or -1.
LastIndex(s, sub) ==
    LET hits == {i \in 0..(Len(s) - Len(sub)) : SubSeq(s, i + 1, i + Len(sub)) = sub}
    IN  IF hits = {} THEN -1 ELSE Max(hits)

\* All strings over alphabet A of length at most n.
StringsUpTo(A, n) == UNION {[1..m -> A] : m \in 0..n}

(***************************************************************************)
(* filterOp and its alias table                                            *)
(***************************************************************************)
filterEq      == "eq"
filterNe      == "ne"
filterGt      == "gt"
filterGte     == "gte"
filterLt      == "lt"
filterLte     == "lte"
filterLike    == "like"
filterIn      == "in"
filterNotIn   == "nin"
filterBetween == "between"
filterIsNull  == "isnull"
filterNotNull == "notnull"

FilterOps == {filterEq, filterNe, filterGt, filterGte, filterLt, filterLte, filterLike,
              filterIn, filterNotIn, filterBetween, filterIsNull, filterNotNull}

\* The alias table of normalizeFilterOp: each canonical operator with the
\* spellings the switch accepts for it.
OpAliases ==
    [eq      |-> {<<"e","q">>, <<"=">>},
     ne      |-> {<<"n","e">>, <<"n","e","q">>, <<"!","=">>, <<"<",">">>},
     gt      |-> {<<"g","t">>, <<">">>},
     gte     |-> {<<"g","t","e">>, <<"g","e">>, <<">","=">>},
     lt      |-> {<<"l","t">>, <<"<">>},
     lte     |-> {<<"l","t","e">>, <<"l","e">>, <<"<","=">>},
     like    |-> {<<"l","i","k","e">>, <<"c","o","n","t","a","i","n","s">>,
                  <<"c","o","n","t","a","i","n">>},
     in      |-> {<<"i","n">>},
     nin     |-> {<<"n","i","n">>, <<"n","o","t","i","n">>, <<"n","o","t","_","i","n">>},
     between |-> {<<"b","e","t","w","e","e","n">>, <<"r","a","n","g","e">>},
     isnull  |-> {<<"i","s","n","u","l","l">>, <<"n","u","l","l">>},
     notnull |-> {<<"n","o","t","n","u","l","l">>, <<"n","o","t","_","n","u","l","l">>,
                  <<"i","s","n","o","t","n","u","l","l">>}]

AllAliases == UNION {OpAliases[o] : o \in FilterOps}

normalizeFilterOp(raw) ==
    LET w == ToLower(TrimSpace(raw))
    IN  IF \E o \in FilterOps : w \in OpAliases[o]
        THEN [op |-> CHOOSE o \in FilterOps : w \in OpAliases[o], ok |-> TRUE]
        ELSE [op |-> "", ok |-> FALSE]

Sep == <<"_","_">>

\* parseFilterKey splitting at the first "__" instead of the last.
parseFilterKeyFirstSep(k) ==
    LET trimmed == TrimSpace(k)
        hits    == {i \in 0..(Len(trimmed) - Len(Sep)) :
                        SubSeq(trimmed, i + 1, i + Len(Sep)) = Sep}
        idx     == IF hits = {} THEN -1 ELSE Min(hits)
        rawOp   == SubSeq(trimmed, idx + 3, Len(trimmed))
    IN  IF trimmed = <<>>
        THEN [column |-> <<>>, op |-> filterEq]
        ELSE IF idx > 0 /\ idx < Len(trimmed) - 2 /\ normalizeFilterOp(rawOp).ok
             THEN [column |-> SubSeq(trimmed, 1, idx), op |-> normalizeFilterOp(rawOp).op]
             ELSE [column |-> trimmed, op |-> filterEq]

parseFilterKey(k) ==
    LET trimmed == TrimSpace(k)
        idx     == LastIndex(trimmed, Sep)
        rawOp   == SubSeq(trimmed, idx + 3, Len(trimmed))
    IN  IF trimmed = <<>>
        THEN [column |-> <<>>, op |-> filterEq]
        ELSE IF idx > 0 /\ idx < Len(trimmed) - 2 /\ normalizeFilterOp(rawOp).ok
             THEN [column |-> SubSeq(trimmed, 1, idx), op |-> normalizeFilterOp(rawOp).op]
             ELSE [column |-> trimmed, op |-> filterEq]

(***************************************************************************)
(* Order directives: parseOrderOption and sanitizeOrders                   *)
(***************************************************************************)
\* strings.HasPrefix
HasPrefix(s, p) == Len(s) >= Len(p) /\ SubSeq(s, 1, Len(p)) = p

\* strings.TrimPrefix
TrimPrefix(s, p) == IF HasPrefix(s, p) THEN SubSeq(s, Len(p) + 1, Len(s)) ELSE s

\* strings.FieldsFunc: the maximal runs of characters outside seps, in order;
\* empty fields are never produced.
RECURSIVE FieldsAcc(_, _, _, _)
FieldsAcc(s, seps, i, cur) ==
    IF i > Len(s)
    THEN IF cur = <<>> THEN <<>> ELSE <<cur>>
    ELSE IF s[i] \in seps
         THEN (IF cur = <<>> THEN <<>> ELSE <<cur>>) \o FieldsAcc(s, seps, i + 1, <<>>)
         ELSE FieldsAcc(s, seps, i + 1, Append(cur, s[i]))

FieldsFunc(s, seps) == FieldsAcc(s, seps, 1, <<>>)

OrderSeps == {" ", ":", ","}

DescWords == {<<"d","e","s","c">>, <<"d","e","s","c","e","n","d">>,
              <<"d","e","s","c","e","n","d","i","n","g">>}

NoOrderOption == [opt |-> [Column |-> <<>>, Desc |-> FALSE], ok |-> FALSE]

\* parseOrderOption with a second token that can only add descending, never
\* take a '-' prefix back.
parseOrderOptionPrefixWins(r) ==
    LET trimmed == TrimSpace(r)
        parts   == FieldsFunc(trimmed, OrderSeps)
        first   == TrimSpace(parts[1])
        column  == IF HasPrefix(first, <<"-">>) THEN TrimPrefix(first, <<"-">>)
                   ELSE TrimPrefix(first, <<"+">>)
        desc    == HasPrefix(first, <<"-">>)
                   \/ (Len(parts) > 1 /\ ToLower(TrimSpace(parts[2])) \in DescWords)
    IN  IF trimmed = <<>> \/ Len(parts) = 0 THEN NoOrderOption
        ELSE IF first = <<>> \/ column = <<>> THEN NoOrderOption
        ELSE [opt |-> [Column |-> column, Desc |-> desc], ok |-> TRUE]

parseOrderOption(r) ==
    LET trimmed == TrimSpace(r)
        parts   == FieldsFunc(trimmed, OrderSeps)
        first   == TrimSpace(parts[1])
        column  == IF HasPrefix(first, <<"-">>) THEN TrimPrefix(first, <<"-">>)
                   ELSE IF HasPrefix(first, <<"+">>) THEN TrimPrefix(first, <<"+">>)
                   ELSE first
        desc    == IF Len(parts) > 1
                   THEN ToLower(TrimSpace(parts[2])) \in DescWords
                   ELSE HasPrefix(first, <<"-">>)
    IN  IF trimmed = <<>> THEN NoOrderOption
        ELSE IF Len(parts) = 0 THEN NoOrderOption
        ELSE IF first = <<>> THEN NoOrderOption
        ELSE IF column = <<>> THEN NoOrderOption
        ELSE [opt |-> [Column |-> column, Desc |-> desc], ok |-> TRUE]

\* The loop of sanitizeOrders from entry i on, with the result and the seen set
\* built so far.
RECURSIVE sanitizeLoop(_, _, _, _, _)
sanitizeLoop(os, al, i, result, seen) ==
    IF i > Len(os) THEN result
    ELSE LET column == TrimSpace(os[i].Column)
         IN  IF column = <<>> \/ column \notin al
             THEN sanitizeLoop(os, al, i + 1, result, seen)
             ELSE IF column \in seen
                  THEN sanitizeLoop(os, al, i + 1, result, seen)
                  ELSE sanitizeLoop(os, al, i + 1,
                                    Append(result, [Column |-> column, Desc |-> os[i].Desc]),
                                    seen \cup {column})

\* sanitizeOrders in which a later duplicate replaces the direction kept for its
\* column.
RECURSIVE sanitizeLoopLastWins(_, _, _, _, _)
sanitizeLoopLastWins(os, al, i, result, seen) ==
    IF i > Len(os) THEN result
    ELSE LET column == TrimSpace(os[i].Column)
         IN  IF column = <<>> \/ column \notin al
             THEN sanitizeLoopLastWins(os, al, i + 1, result, seen)
             ELSE IF column \in seen
                  THEN sanitizeLoopLastWins(os, al, i + 1,
                           [j \in 1..Len(result) |->
                               IF result[j].Column = column
                               THEN [Column |-> column, Desc |-> os[i].Desc]
                               ELSE result[j]],
                           seen)
                  ELSE sanitizeLoopLastWins(os, al, i + 1,
                                    Append(result, [Column |-> column, Desc |-> os[i].Desc]),
                                    seen \cup {column})

sanitizeOrdersLastWins(os, al) ==
    IF Len(os) = 0 \/ al = {} THEN <<>> ELSE sanitizeLoopLastWins(os, al, 1, <<>>, {})

\* A nil result is the empty list.
sanitizeOrders(os, al) ==
    IF Len(os) = 0 \/ al = {} THEN <<>> ELSE sanitizeLoop(os, al, 1, <<>>, {})

(***************************************************************************)
(* Filter values and the predicate builder ApplyFilters                    *)
(*                                                                         *)
(* A query is the list of predicates its Where/Not calls have added, in    *)
(* call order; the store reads it as their conjunction.  A predicate is    *)
(* [kind, col, vals]: Eq, Neq, Gt, Gte, Lt, Lte and Like carry one value,   *)
(* In and NotIn carry a list, IsNull and IsNotNull none.                   *)
(***************************************************************************)
Pred(kind, col, vals) == [kind |-> kind, col |-> col, vals |-> vals]

\* strings.Split(s, ","): the pieces between commas, empty pieces included.
RECURSIVE SplitAcc(_, _, _, _)
SplitAcc(s, sep, i, cur) ==
    IF i > Len(s) THEN <<cur>>
    ELSE IF s[i] = sep
         THEN <<cur>> \o SplitAcc(s, sep, i + 1, <<>>)
         ELSE SplitAcc(s, sep, i + 1, Append(cur, s[i]))

Split(s, sep) == SplitAcc(s, sep, 1, <<>>)

\* ContainsAny that looks at the first character only.
ContainsAnyAtStart(s, chars) == Len(s) > 0 /\ s[1] \in chars

\* strings.ContainsAny
ContainsAny(s, chars) == \E i \in 1..Len(s) : s[i] \in chars

\* The elements of a list of strings that are non-empty after trimming, trimmed.
RECURSIVE TrimmedNonEmpty(_)
TrimmedNonEmpty(vals) ==
    IF vals = <<>> THEN <<>>
    ELSE (IF TrimSpace(Head(vals)) = <<>> THEN <<>> ELSE <<TrimSpace(Head(vals))>>)
         \o TrimmedNonEmpty(Tail(vals))

normalizeFilterValues(vals) == TrimmedNonEmpty(vals)

\* splitCommaValues that keeps the empty parts.
RECURSIVE splitCommaValuesKeepEmpty(_)
splitCommaValuesKeepEmpty(vals) ==
    IF vals = <<>> THEN <<>>
    ELSE Split(Head(vals), ",") \o splitCommaValuesKeepEmpty(Tail(vals))

\* splitCommaValues that splits the first value and leaves out the others.
splitCommaValuesFirstOnly(vals) ==
    IF vals = <<>> THEN <<>> ELSE TrimmedNonEmpty(Split(Head(vals), ","))

RECURSIVE splitCommaValues(_)
splitCommaValues(vals) ==
    IF vals = <<>> THEN <<>>
    ELSE TrimmedNonEmpty(Split(Head(vals), ",")) \o splitCommaValues(Tail(vals))

sTrue  == {<<"1">>, <<"t","r","u","e">>, <<"y","e","s">>, <<"y">>, <<"o","n">>}
sFalse == {<<"0">>, <<"f","a","l","s","e">>, <<"n","o">>, <<"n">>, <<"o","f","f">>}

\* parseBoolValue that compares without lower-casing.
parseBoolValueCaseSensitive(r) ==
    LET w == TrimSpace(r)
    IN  IF w \in sTrue THEN [value |-> TRUE, ok |-> TRUE]
        ELSE IF w \in sFalse THEN [value |-> FALSE, ok |-> TRUE]
        ELSE [value |-> FALSE, ok |-> FALSE]

parseBoolValue(r) ==
    LET w == ToLower(TrimSpace(r))
    IN  IF w \in sTrue THEN [value |-> TRUE, ok |-> TRUE]
        ELSE IF w \in sFalse THEN [value |-> FALSE, ok |-> TRUE]
        ELSE [value |-> FALSE, ok |-> FALSE]

firstValue(values) == IF Len(values) = 0 THEN <<>> ELSE values[1]

\* The predicates one operator adds for a column and its normalized values:
\* the switch of ApplyFilters.
filterSwitch(column, op, values) ==
    CASE op = filterEq  -> <<Pred("Eq",  column, <<values[1]>>)>>
      [] op = filterNe  -> <<Pred("Neq", column, <<values[1]>>)>>
      [] op = filterGt  -> <<Pred("Gt",  column, <<values[1]>>)>>
      [] op = filterGte -> <<Pred("Gte", column, <<values[1]>>)>>
      [] op = filterLt  -> <<Pred("Lt",  column, <<values[1]>>)>>
      [] op = filterLte -> <<Pred("Lte", column, <<values[1]>>)>>
      [] op = filterLike ->
            LET value == IF values[1] # <<>> /\ ~ContainsAny(values[1], {"%", "_"})
                         THEN <<"%">> \o values[1] \o <<"%">>
                         ELSE values[1]
            IN  IF value # <<>> THEN <<Pred("Like", column, <<value>>)>> ELSE <<>>
      [] op = filterIn ->
            LET list == splitCommaValues(values)
            IN  IF Len(list) > 0 THEN <<Pred("In", column, list)>> ELSE <<>>
      [] op = filterNotIn ->
            LET list == splitCommaValues(values)
            IN  IF Len(list) > 0 THEN <<Pred("NotIn", column, list)>> ELSE <<>>
      [] op = filterBetween ->
            LET parts == splitCommaValues(values)
            IN  IF Len(parts) >= 2 /\ TrimSpace(parts[1]) # <<>> /\ TrimSpace(parts[2]) # <<>>
                THEN <<Pred("Gte", column, <<TrimSpace(parts[1])>>),
                       Pred("Lte", column, <<TrimSpace(parts[2])>>)>>
                ELSE <<>>
      [] op = filterIsNull ->
            LET b == parseBoolValue(firstValue(values))
            IN  IF ~b.ok \/ b.value
                THEN <<Pred("IsNull", column, <<>>)>>
                ELSE <<Pred("IsNotNull", column, <<>>)>>
      [] op = filterNotNull -> <<Pred("IsNotNull", column, <<>>)>>
      [] OTHER -> <<>>

\* One iteration of the loop of ApplyFilters whose allowlist test is skipped
\* for the two operators that need no operand.
applyFilterNullUnchecked(k, vals, al) ==
    LET parsed == parseFilterKey(k)
        values == normalizeFilterValues(vals)
        nullOp == parsed.op \in {filterIsNull, filterNotNull}
    IN  IF parsed.column = <<>> \/ (parsed.column \notin al /\ ~nullOp) THEN <<>>
        ELSE IF Len(values) = 0 /\ ~nullOp THEN <<>>
        ELSE filterSwitch(parsed.column, parsed.op, values)

\* One iteration of the loop of ApplyFilters: the predicates the entry
\* (k, vals) of the filter map adds to the query.
applyFilter(k, vals, al) ==
    LET parsed == parseFilterKey(k)
        values == normalizeFilterValues(vals)
    IN  IF parsed.column = <<>> \/ parsed.column \notin al THEN <<>>
        ELSE IF Len(values) = 0 /\ parsed.op # filterIsNull /\ parsed.op # filterNotNull
             THEN <<>>
             ELSE filterSwitch(parsed.column, parsed.op, values)

\* ApplyFilters with each entry's predicates replacing those before them.
RECURSIVE ApplyFiltersLastOnly(_, _, _, _)
ApplyFiltersLastOnly(query, fs, al, visit) ==
    IF visit = <<>> THEN query
    ELSE ApplyFiltersLastOnly(IF applyFilter(Head(visit), fs[Head(visit)], al) = <<>>
                              THEN query
                              ELSE applyFilter(Head(visit), fs[Head(visit)], al),
                              fs, al, Tail(visit))

\* ApplyFilters on a non-nil query; visit is the order in which the range over
\* the filter map yields its keys (any order: Go leaves it unspecified).
RECURSIVE ApplyFilters(_, _, _, _)
ApplyFilters(query, fs, al, visit) ==
    IF visit = <<>> THEN query
    ELSE ApplyFilters(query \o applyFilter(Head(visit), fs[Head(visit)], al),
                      fs, al, Tail(visit))

\* The orders in which a range over a map with key set K may visit it.
VisitOrders(K) ==
    {v \in [1..Cardinality(K) -> K] : \A i, j \in 1..Cardinality(K) : i # j => v[i] # v[j]}

(***************************************************************************)
(* Specification SpecKey: parseFilterKey applied to a bounded set of keys. *)
(***************************************************************************)
KeyAlphabet == {"a", "_", " ", "e", "q", "Q", "="}

KeyColumns == {<<"a">>, <<"a","_","_","b">>, <<"_","a">>, <<"a","_">>, <<"a"," ">>, <<>>}

KeySuffixes == AllAliases \cup {<<"E","q">>, <<"N","O","T","_","I","N">>, <<" ","e","q">>,
                                <<"f","o","o">>, <<"e","q","_","_">>, <<>>}

KeyPads == {<<>>, <<" ">>, <<"\t">>}

KeyInputs ==
    StringsUpTo(KeyAlphabet, MaxKeyLen)
    \cup {l \o c \o Sep \o s \o r : l \in KeyPads, c \in KeyColumns, s \in KeySuffixes, r \in KeyPads}

\* The values the variables of the other specifications rest at.
IdleKey   == key = <<>> /\ keyOut = <<>>
IdleOrder == rawOrder = <<>> /\ optOut = <<>>
IdleSan   == orders = <<>> /\ allowedO = {} /\ ordersOut = <<>>
IdleFilter == filters = <<>> /\ allowedF = {} /\ visitF = <<>> /\ queryOut = <<>>
NoCall    == [op |-> "none"]
IdleStore == rtype = "" /\ rows = {} /\ autoInc = 1 /\ last = NoCall

IdleLock == redisKey = <<>> /\ inv = <<>>
IdlePure  == IdleKey /\ IdleOrder /\ IdleSan /\ IdleFilter

InitKey ==
    /\ key \in KeyInputs
    /\ keyOut = <<>>
    /\ IdleOrder /\ IdleSan /\ IdleFilter /\ IdleStore
    /\ IdleLock

ParseFilterKey ==
    /\ keyOut = <<>>
    /\ keyOut' = <<parseFilterKey(key)>>
    /\ UNCHANGED <<key, orderVars, sanVars, filterVars, storeVars, lockVars>>

NextKey == ParseFilterKey

SpecKey == InitKey /\ [][NextKey]_vars

(***************************************************************************)
(* C2.  What the filter grammar promises of parseFilterKey.                *)
(***************************************************************************)
\* Whether s, lower-cased, is a spelling of the alias table.
IsAliasWord(s) == ToLower(s) \in AllAliases

CanonicalOp(s) == CHOOSE o \in FilterOps : ToLower(s) \in OpAliases[o]

\* The 0-based positions of a "__" in s that is not at position 0 and leaves at
\* least one character after it.
InnerSeps(s) ==
    {i \in 1..(Len(s) - 3) : s[i + 1] = "_" /\ s[i + 2] = "_"}

\* The grammar read on the string s: col__op split at the last inner "__" when
\* the suffix, after trim(op), is an alias; the whole of s with eq otherwise.
GrammarResult(s, trim(_)) ==
    IF InnerSeps(s) # {} /\ IsAliasWord(trim(SubSeq(s, Max(InnerSeps(s)) + 3, Len(s))))
    THEN [column |-> SubSeq(s, 1, Max(InnerSeps(s))),
          op     |-> CanonicalOp(trim(SubSeq(s, Max(InnerSeps(s)) + 3, Len(s))))]
    ELSE [column |-> s, op |-> filterEq]

Identity(s) == s

\* C2 as stated: parseFilterKey returns (col, normalizedOp) for a key col__op
\* with a recognized alias, and (key, eq), the entire key as the column, for
\* every other string.
C2_AsStated ==
    keyOut # <<>> => keyOut[1] = GrammarResult(key, Identity)

\* C2 amended: the grammar is read on the key with its surrounding white space
\* trimmed, and the suffix is matched after trimming and lower-casing; every
\* other key yields (trimmed key, eq).
C2_ParseFilterKey ==
    keyOut # <<>> => keyOut[1] = GrammarResult(TrimSpace(key), TrimSpace)

\* A padded key with an upper-case alias and a "__" inside its column was parsed.
C2_Witness ==
    /\ key = <<" ","a","_","_","b","_","_","N","O","T","_","I","N">>
    /\ keyOut = <<[column |-> <<"a","_","_","b">>, op |-> filterNotIn]>>

(***************************************************************************)
(* Specification SpecOrder: parseOrderOption applied to a bounded set of   *)
(* raw directives.                                                         *)
(***************************************************************************)
OrderAlphabet == {"a", "-", "+", " ", ":", ",", "\t"}

sName == <<"n","a","m","e">>
sAge  == <<"a","g","e">>
sAsc  == <<"a","s","c">>
sDesc == <<"d","e","s","c">>

RawPrefixes == {<<>>, <<"-">>, <<"+">>, <<"-","-">>, <<"-","\t">>}
RawColumns  == {sName, sAge, <<"a","\t">>}
RawSeps     == {<<" ">>, <<":">>, <<",", " ">>, <<":","\t">>}
RawDirs     == {sAsc, sDesc, <<"D","E","S","C">>, <<"D","e","s","c","e","n","d">>,
                <<"d","e","s","c","e","n","d","i","n","g">>, <<"d","e","s","c","x">>,
                <<"d","e","s","c","\t">>}
RawTails    == {<<>>, <<" ">> \o sAsc, <<" ">> \o sDesc}
RawPads     == {<<>>, <<" ">>, <<"\t">>}

RawInputs ==
    StringsUpTo(OrderAlphabet, MaxRawLen)
    \cup {l \o p \o c \o r : l \in RawPads, p \in RawPrefixes, c \in RawColumns, r \in RawPads}
    \cup {l \o p \o c \o sp \o d \o t :
            l \in RawPads, p \in RawPrefixes, c \in RawColumns, sp \in RawSeps,
            d \in RawDirs, t \in RawTails}

InitOrder ==
    /\ rawOrder \in RawInputs
    /\ optOut = <<>>
    /\ IdleKey /\ IdleSan /\ IdleFilter /\ IdleStore
    /\ IdleLock

ParseOrderOption ==
    /\ optOut = <<>>
    /\ optOut' = <<parseOrderOption(rawOrder)>>
    /\ UNCHANGED <<rawOrder, keyVars, sanVars, filterVars, storeVars, lockVars>>

NextOrder == ParseOrderOption

SpecOrder == InitOrder /\ [][NextOrder]_vars

(***************************************************************************)
(* C10.  What the order grammar promises of parseOrderOption.              *)
(***************************************************************************)
StripSign(tok) ==
    IF HasPrefix(tok, <<"-">>) \/ HasPrefix(tok, <<"+">>)
    THEN SubSeq(tok, 2, Len(tok))
    ELSE tok

\* The directive r read by the order grammar; trim(s) is applied to the
\* directive and to its first two tokens.
OrderGrammar(r, trim(_)) ==
    LET toks == FieldsFunc(trim(r), OrderSeps)
        col  == StripSign(trim(toks[1]))
        desc == IF Len(toks) >= 2
                THEN ToLower(trim(toks[2])) \in DescWords
                ELSE HasPrefix(trim(toks[1]), <<"-">>)
    IN  IF toks = <<>> THEN NoOrderOption
        ELSE IF col = <<>> THEN NoOrderOption
        ELSE [opt |-> [Column |-> col, Desc |-> desc], ok |-> TRUE]

OrderExamples ==
    /\ rawOrder = <<"-">> \o sName
         => optOut[1] = [opt |-> [Column |-> sName, Desc |-> TRUE], ok |-> TRUE]
    /\ rawOrder = sAge \o <<" ">> \o sAsc
         => optOut[1] = [opt |-> [Column |-> sAge, Desc |-> FALSE], ok |-> TRUE]
    /\ rawOrder = <<"-">> \o sAge \o <<" ">> \o sAsc
         => optOut[1] = [opt |-> [Column |-> sAge, Desc |-> FALSE], ok |-> TRUE]

\* C10 as stated: the directive is split on space, colon and comma; the first
\* token less one leading '-' or '+' is the column; a second token alone decides
\* the direction (desc, descend, descending in any case give descending, anything
\* else ascending); a directive with an empty column is dropped.
C10_AsStated ==
    optOut # <<>> => optOut[1] = OrderGrammar(rawOrder, Identity) /\ OrderExamples

\* C10 amended: as stated, with surrounding white space trimmed from the raw
\* directive, from the first token before its sign is looked at, and from the
\* second token before it is matched.
C10_ParseOrderOption ==
    optOut # <<>> => optOut[1] = OrderGrammar(rawOrder, TrimSpace) /\ OrderExamples

\* "-age asc" was parsed: the second token took the '-' prefix back.
C10_Witness ==
    /\ rawOrder = <<"-">> \o sAge \o <<" ">> \o sAsc
    /\ optOut = <<[opt |-> [Column |-> sAge, Desc |-> FALSE], ok |-> TRUE]>>

(***************************************************************************)
(* Specification SpecSan: sanitizeOrders applied to bounded order lists    *)
(* and allowlists.                                                         *)
(***************************************************************************)
sA == <<"a">>
sB == <<"b">>
sX == <<"x">>

SanColumns == {sA, sB, sX, <<" ","a">>, <<>>}

SanOptions == [Column : SanColumns, Desc : BOOLEAN]

SanAllowlists == {{}, {sA}, {sA, sB}}

InitSan ==
    /\ orders \in UNION {[1..n -> SanOptions] : n \in 0..MaxOrders}
    /\ allowedO \in SanAllowlists
    /\ ordersOut = <<>>
    /\ IdleKey /\ IdleOrder /\ IdleFilter /\ IdleStore
    /\ IdleLock

SanitizeOrders ==
    /\ ordersOut = <<>>
    /\ ordersOut' = <<sanitizeOrders(orders, allowedO)>>
    /\ UNCHANGED <<orders, allowedO, keyVars, orderVars, filterVars, storeVars, lockVars>>

NextSan == SanitizeOrders

SpecSan == InitSan /\ [][NextSan]_vars

(***************************************************************************)
(* C9.  What the order resolver promises of sanitizeOrders.                *)
(***************************************************************************)
\* out keeps entries of in: there is a strictly increasing choice of input
\* positions, one per kept entry, such that the kept entry is the input entry
\* there with its column read through norm, and that position is the first one
\* of the input holding that column.
KeepsFirstOccurrences(in, out, norm(_)) ==
    \E f \in [1..Len(out) -> 1..Len(in)] :
        /\ \A j \in 1..Len(out) :
              /\ out[j] = [Column |-> norm(in[f[j]].Column), Desc |-> in[f[j]].Desc]
              /\ \A i \in 1..Len(in) : norm(in[i].Column) = out[j].Column => f[j] <= i
        /\ \A j, k \in 1..Len(out) : j < k => f[j] < f[k]

SanitizedShape(out, al) ==
    /\ \A j \in 1..Len(out) : out[j].Column # <<>> /\ out[j].Column \in al
    /\ \A j, k \in 1..Len(out) : j # k => out[j].Column # out[k].Column

\* C9 as stated: every kept column is non-empty, allowlisted and unique, and
\* every kept entry is the entry of the input that first holds its column, the
\* kept entries standing in input order.
C9_AsStated ==
    ordersOut # <<>> =>
        /\ SanitizedShape(ordersOut[1], allowedO)
        /\ KeepsFirstOccurrences(orders, ordersOut[1], Identity)

\* C9 amended: the same, columns being compared, and kept, with their
\* surrounding white space trimmed.
C9_SanitizeOrders ==
    ordersOut # <<>> =>
        /\ SanitizedShape(ordersOut[1], allowedO)
        /\ KeepsFirstOccurrences(orders, ordersOut[1], TrimSpace)

\* A descending entry for a, then an ascending duplicate, then b: the
\* duplicate was discarded and the order kept.
C9_Witness ==
    /\ orders = <<[Column |-> sA, Desc |-> TRUE], [Column |-> sA, Desc |-> FALSE],
                  [Column |-> sB, Desc |-> FALSE]>>
    /\ ordersOut = <<<<[Column |-> sA, Desc |-> TRUE], [Column |-> sB, Desc |-> FALSE]>>>>

(***************************************************************************)
(* Specification SpecFilter: ApplyFilters applied to bounded filter maps.  *)
(***************************************************************************)
\* One spelling of each operator, as a key suffix.
OpWord ==
    [eq      |-> <<"e","q">>,
     ne      |-> <<"n","e">>,
     gt      |-> <<"g","t">>,
     gte     |-> <<"g","t","e">>,
     lt      |-> <<"l","t">>,
     lte     |-> <<"l","t","e">>,
     like    |-> <<"l","i","k","e">>,
     in      |-> <<"i","n">>,
     nin     |-> <<"n","i","n">>,
     between |-> <<"b","e","t","w","e","e","n">>,
     isnull  |-> <<"i","s","n","u","l","l">>,
     notnull |-> <<"n","o","t","n","u","l","l">>]

\* Column a is a column of the record type, column x is not: x is filtered on
\* with no suffix and with each of the twelve operators, a with no suffix and with in.
FilterKeys ==
    {sX} \cup {sX \o Sep \o OpWord[o] : o \in FilterOps}
    \cup {sA} \cup {sA \o Sep \o OpWord[o] : o \in {filterIn}}

FilterValueLists == {<<>>, <<<<"1">>>>, <<<<"0",",","2">>, <<" ">>, <<"3">>>>}

FilterAllowlists == {{sA}, {}}

RECURSIVE KeySetsUpTo(_, _)
KeySetsUpTo(K, n) ==
    IF n = 0 THEN {{}}
    ELSE KeySetsUpTo(K, n - 1) \cup {S \cup {k} : S \in KeySetsUpTo(K, n - 1), k \in K}

FilterMaps == UNION {[K -> FilterValueLists] : K \in KeySetsUpTo(FilterKeys, MaxFilterKeys)}

InitFilter ==
    /\ filters \in FilterMaps
    /\ allowedF \in FilterAllowlists
    /\ visitF = <<>>
    /\ queryOut = <<>>
    /\ IdleKey /\ IdleOrder /\ IdleSan /\ IdleStore
    /\ IdleLock

ApplyFiltersCall ==
    /\ queryOut = <<>>
    /\ \E v \in VisitOrders(DOMAIN filters) :
          /\ visitF' = v
          /\ queryOut' = <<ApplyFilters(<<>>, filters, allowedF, v)>>
    /\ UNCHANGED <<filters, allowedF, keyVars, orderVars, sanVars, storeVars, lockVars>>

NextFilter == ApplyFiltersCall

SpecFilter == InitFilter /\ [][NextFilter]_vars

(***************************************************************************)
(* C1.  Columns outside the allowlist never reach the query.               *)
(***************************************************************************)
\* The map fs without its key k.
WithoutKey(fs, k) == [j \in (DOMAIN fs) \ {k} |-> fs[j]]

\* The sequence s without its elements equal to k.
RECURSIVE WithoutElem(_, _)
WithoutElem(s, k) ==
    IF s = <<>> THEN <<>>
    ELSE (IF Head(s) = k THEN <<>> ELSE <<Head(s)>>) \o WithoutElem(Tail(s), k)

\* C1: for every filter key whose column is outside the allowlist, whatever its
\* operator and operand values, the built query holds no predicate on that
\* column and is the query built from the map without that key.
C1_UnlistedColumnsDropped ==
    queryOut # <<>> =>
        \A k \in DOMAIN filters :
            parseFilterKey(k).column \notin allowedF =>
                /\ \A i \in 1..Len(queryOut[1]) :
                      queryOut[1][i].col # parseFilterKey(k).column
                /\ queryOut[1] = ApplyFilters(<<>>, WithoutKey(filters, k), allowedF,
                                              WithoutElem(visitF, k))

\* A map with an isnull test on the unlisted column x, given no operand, and an
\* equality on the listed column a: only the equality reached the query.
C1_Witness ==
    /\ DOMAIN filters = {sX \o Sep \o OpWord[filterIsNull], sA}
    /\ filters[sX \o Sep \o OpWord[filterIsNull]] = <<>>
    /\ allowedF = {sA}
    /\ queryOut = <<<<Pred("Eq", sA, <<<<"1">>>>)>>>>

(***************************************************************************)
(* Record types.  A record type T is what GORM's schema parser makes of a  *)
(* Go struct: its fields in declaration order, each with its Go name, its  *)
(* column name (empty for a field the store does not hold), its kind, and  *)
(* the flags SaveOrUpdate reads.                                           *)
(*                                                                         *)
(*   User  ID uint (primary key, auto-increment), Name string, Age uint    *)
(*   Doc   Code string (primary key), Title string, UpdatedAt time         *)
(*         (auto-update-time)                                              *)
(*   Item  SKU string (primary key), ID string (a plain column named id),  *)
(*         Owner string (written on create only), Note string (not stored) *)
(***************************************************************************)
Field(name, dbname, kind, primary, updatable, autoUpdate) ==
    [Name |-> name, DBName |-> dbname, Kind |-> kind, PrimaryKey |-> primary,
     Updatable |-> updatable, AutoUpdateTime |-> autoUpdate]

sId        == <<"i","d">>
sCode      == <<"c","o","d","e">>
sTitle     == <<"t","i","t","l","e">>
sUpdatedAt == <<"u","p","d","a","t","e","d","_","a","t">>
sSku       == <<"s","k","u">>
sOwner     == <<"o","w","n","e","r">>
sNote      == <<"N","o","t","e">>

RecordTypes == {"User", "Doc", "Item"}

Schemas ==
    [T \in RecordTypes |->
    CASE T = "User" ->
            <<Field(<<"I","D">>, sId, "uint", TRUE, TRUE, FALSE),
              Field(<<"N","a","m","e">>, sName, "string", FALSE, TRUE, FALSE),
              Field(<<"A","g","e">>, sAge, "uint", FALSE, TRUE, FALSE)>>
      [] T = "Doc" ->
            <<Field(<<"C","o","d","e">>, sCode, "string", TRUE, TRUE, FALSE),
              Field(<<"T","i","t","l","e">>, sTitle, "string", FALSE, TRUE, FALSE),
              Field(<<"U","p","d","a","t","e","d","A","t">>, sUpdatedAt, "time",
                    FALSE, TRUE, TRUE)>>
      [] T = "Item" ->
            <<Field(<<"S","K","U">>, sSku, "string", TRUE, TRUE, FALSE),
              Field(<<"I","D">>, sId, "string", FALSE, TRUE, FALSE),
              Field(<<"O","w","n","e","r">>, sOwner, "string", FALSE, FALSE, FALSE),
              Field(sNote, <<>>, "string", FALSE, FALSE, FALSE)>>]

\* schema.Fields
Fields(T) == Schemas[T]

FieldSet(T) == {Fields(T)[i] : i \in 1..Len(Fields(T))}

PrimaryFields == [T \in RecordTypes |-> CHOOSE f \in FieldSet(T) : f.PrimaryKey]

\* schema.PrioritizedPrimaryField
PrimaryField(T) == PrimaryFields[T]

ColumnSets == [T \in RecordTypes |-> {f.DBName : f \in {g \in FieldSet(T) : g.DBName # <<>>}}]

\* The columns of T's table.
Columns(T) == ColumnSets[T]

ColumnFields ==
    [T \in RecordTypes |-> [c \in ColumnSets[T] |-> CHOOSE f \in FieldSet(T) : f.DBName = c]]

\* schema.LookUpField(c): the field stored in column c.
LookUpField(T, c) == ColumnFields[T][c]

\* Whether the store assigns the primary key of an inserted row that has none.
AutoIncrement(T) == PrimaryField(T).Kind = "uint"

ZeroOf(kind) == IF kind = "string" THEN <<>> ELSE 0

\* ValueOf that never reports a zero value.
ValueOfNeverZero(f, entity) == [value |-> entity[f.Name], zero |-> FALSE]

\* field.ValueOf(ctx, elem): the field's value in the entity and whether it is
\* the zero value of its type.
ValueOf(f, entity) ==
    [value |-> entity[f.Name], zero |-> entity[f.Name] = ZeroOf(f.Kind)]

\* The instants NowFunc may return (0 is the zero time).
Times == {1, 2}

sK == <<"k">>
s7 == <<"7">>
sO == <<"o">>
sT == <<"t">>

\* The values a caller may put in a field of an entity.
FieldValues(T, f) ==
    CASE f.Kind = "time" -> {0, 1}
      [] f.Kind = "uint" /\ f.PrimaryKey -> 0..MaxId
      [] f.Kind = "uint" -> {0, 1}
      [] f.PrimaryKey -> {<<>>, sK, s7}
      [] f.DBName = sId -> {<<>>, sK}
      [] f.DBName = sName -> {<<>>, sA}
      [] f.DBName = sTitle -> {<<>>, sT}
      [] OTHER -> {<<>>, sO}

\* The entities of type T: one value per field, keyed by the field's Go name.
RECURSIVE ValueTuples(_, _)
ValueTuples(T, i) ==
    IF i > Len(Fields(T)) THEN {<<>>}
    ELSE {<<v>> \o t : v \in FieldValues(T, Fields(T)[i]), t \in ValueTuples(T, i + 1)}

\* The entity whose fields, in declaration order, hold the values of t.
Entity(T, t) ==
    [n \in {f.Name : f \in FieldSet(T)} |->
        t[CHOOSE i \in 1..Len(Fields(T)) : Fields(T)[i].Name = n]]

EntitySets == [T \in RecordTypes |-> {Entity(T, t) : t \in ValueTuples(T, 1)}]

Entities(T) == EntitySets[T]

(***************************************************************************)
(* The store, as GORM presents it.  A request either fails with an error   *)
(* and changes nothing, or succeeds and reports the rows it affected.      *)
(* fault stands for a failure of the store itself (connection lost, ...).  *)
(***************************************************************************)
\* A request sent to the store, with the store's answer to it.
Req(kind, arg, r) ==
    [kind |-> kind, arg |-> arg, Error |-> r.Error, RowsAffected |-> r.RowsAffected]

Resp(error, affected, newRows) == [Error |-> error, RowsAffected |-> affected, rows |-> newRows]

ErrStore         == "store failure"
ErrDuplicate     == "duplicate key"
ErrUnknownColumn == "unknown column"
ErrRecordNotFound == "record not found"

\* The text of a stored value, as the store compares it with a string operand.
Digits == <<"0","1","2","3","4","5","6","7","8","9">>

RECURSIVE Decimal(_)
Decimal(n) == IF n < 10 THEN <<Digits[n + 1]>> ELSE Append(Decimal(n \div 10), Digits[(n % 10) + 1])

Text(kind, v) == IF kind = "string" THEN v ELSE Decimal(v)

\* The text of column c of row r.
ColText(T, r, c) == Text(LookUpField(T, c).Kind, r[c])

\* The row the entity is stored as: its stored fields under their column names.
RowOf(T, entity) ==
    [c \in Columns(T) |-> entity[LookUpField(T, c).Name]]

PkOf(T, row) == row[PrimaryField(T).DBName]

\* session.Create(entity): one INSERT of all the stored fields.  An
\* auto-increment key at zero is assigned by the store; an auto-update-time
\* field at zero is set to now.
StoreInsert(T, rs, next, entity, now, fault) ==
    LET pkc  == PrimaryField(T).DBName
        base == RowOf(T, entity)
        row  == [c \in Columns(T) |->
                    IF c = pkc /\ AutoIncrement(T) /\ base[c] = 0 THEN next
                    ELSE IF LookUpField(T, c).AutoUpdateTime /\ base[c] = 0
                         THEN now
                         ELSE base[c]]
    IN  IF fault THEN Resp(ErrStore, 0, rs)
        ELSE IF \E r \in rs : r[pkc] = row[pkc] THEN Resp(ErrDuplicate, 0, rs)
        ELSE Resp("nil", 1, rs \cup {row})

\* session.Model(entity).Select(columns).Updates(entity): one UPDATE of the
\* selected columns of the row whose primary key is the entity's; a selected
\* auto-update-time column is set to now.
StoreUpdate(T, rs, entity, columns, now, fault) ==
    LET pkc    == PrimaryField(T).DBName
        base   == RowOf(T, entity)
        hit(r) == r[pkc] = base[pkc]
        new(r) == [c \in Columns(T) |->
                      IF c \notin columns THEN r[c]
                      ELSE IF LookUpField(T, c).AutoUpdateTime
                           THEN now
                           ELSE base[c]]
    IN  IF fault THEN Resp(ErrStore, 0, rs)
        ELSE Resp("nil", Cardinality({r \in rs : hit(r)}),
                  {IF hit(r) THEN new(r) ELSE r : r \in rs})

\* session.Delete(new(T), numericID): DELETE of the rows whose primary key
\* equals the number.
StoreDeleteByPrimaryKey(T, rs, n, fault) ==
    LET hit(r) == ColText(T, r, PrimaryField(T).DBName) = Decimal(n)
    IN  IF fault THEN Resp(ErrStore, 0, rs)
        ELSE Resp("nil", Cardinality({r \in rs : hit(r)}), {r \in rs : ~hit(r)})

\* session.Where(column + " = ?", value).Delete(new(T)): DELETE of the rows
\* whose column of that name equals the string; a table without such a column
\* makes the statement fail.
StoreDeleteWhere(T, rs, column, value, fault) ==
    LET hit(r) == ColText(T, r, column) = value
    IN  IF fault THEN Resp(ErrStore, 0, rs)
        ELSE IF column \notin Columns(T) THEN Resp(ErrUnknownColumn, 0, rs)
        ELSE Resp("nil", Cardinality({r \in rs : hit(r)}), {r \in rs : ~hit(r)})

(***************************************************************************)
(* Service[T].SaveOrUpdate.  The entity pointer is <<>> when nil and <<e>>  *)
(* when it points to the entity e.  A nil error is the string "nil".       *)
(***************************************************************************)
Nil == "nil"

\* The loop over schema.Fields: the columns an update writes, in field order.
RECURSIVE updateColumns(_, _, _)
updateColumns(T, entity, i) ==
    IF i > Len(Fields(T)) THEN <<>>
    ELSE LET field == Fields(T)[i]
         IN  IF ~field.Updatable \/ field.DBName = <<>> \/ field.PrimaryKey
             THEN updateColumns(T, entity, i + 1)
             ELSE IF field.AutoUpdateTime
                  THEN <<field.DBName>> \o updateColumns(T, entity, i + 1)
                  ELSE IF ValueOf(field, entity).zero
                       THEN updateColumns(T, entity, i + 1)
                       ELSE <<field.DBName>> \o updateColumns(T, entity, i + 1)

Range(q) == {q[i] : i \in 1..Len(q)}

\* What a call returns and leaves behind: the error, the requests sent to the
\* store, the store afterwards.
Outcome(err, reqs, newRows, newAuto) ==
    [err |-> err, reqs |-> reqs, rows |-> newRows, autoInc |-> newAuto]

\* SaveOrUpdate that writes every updatable column, zero or not.
saveOrUpdateAllColumns(T, rs, next, ptr, now, fault) ==
    IF ptr = <<>> THEN Outcome("entity is nil", <<>>, rs, next)
    ELSE IF ValueOf(PrimaryField(T), ptr[1]).zero
    THEN LET entity == ptr[1]
             r == StoreInsert(T, rs, next, entity, now, fault)
         IN  Outcome(r.Error, <<Req("insert", RowOf(T, entity), r)>>, r.rows,
                     IF r.Error = Nil /\ AutoIncrement(T) THEN next + 1 ELSE next)
    ELSE LET entity == ptr[1]
             columns == {f.DBName : f \in {g \in FieldSet(T) :
                              g.Updatable /\ g.DBName # <<>> /\ ~g.PrimaryKey}}
             r == StoreUpdate(T, rs, entity, columns, now, fault)
         IN  IF columns = {} THEN Outcome(Nil, <<>>, rs, next)
             ELSE Outcome(r.Error,
                          <<Req("update", [pk |-> entity[PrimaryField(T).Name],
                                           columns |-> columns], r)>>,
                          r.rows, next)

\* SaveOrUpdate that inserts the record when its update matches no row.
saveOrUpdateUpsert(T, rs, next, ptr, now, fault) ==
    IF ptr = <<>> THEN Outcome("entity is nil", <<>>, rs, next)
    ELSE IF ValueOf(PrimaryField(T), ptr[1]).zero
    THEN LET entity == ptr[1]
             r == StoreInsert(T, rs, next, entity, now, fault)
         IN  Outcome(r.Error, <<Req("insert", RowOf(T, entity), r)>>, r.rows,
                     IF r.Error = Nil /\ AutoIncrement(T) THEN next + 1 ELSE next)
    ELSE LET entity == ptr[1]
             columns == updateColumns(T, entity, 1)
             r == StoreUpdate(T, rs, entity, Range(columns), now, fault)
             i == StoreInsert(T, rs, next, entity, now, fault)
         IN  IF Len(columns) = 0 THEN Outcome(Nil, <<>>, rs, next)
             ELSE IF r.Error = Nil /\ r.RowsAffected = 0
             THEN Outcome(i.Error,
                          <<Req("update", [pk |-> entity[PrimaryField(T).Name],
                                           columns |-> Range(columns)], r),
                            Req("insert", RowOf(T, entity), i)>>,
                          i.rows, next)
             ELSE Outcome(r.Error,
                          <<Req("update", [pk |-> entity[PrimaryField(T).Name],
                                           columns |-> Range(columns)], r)>>,
                          r.rows, next)

\* The record types of the model all declare a primary key, so the returns for
\* an unparsable schema and a missing primary key (lines 37-54) cannot be taken.
saveOrUpdate(T, rs, next, ptr, now, fault) ==
    IF ptr = <<>> THEN Outcome("entity is nil", <<>>, rs, next)
    ELSE IF ValueOf(PrimaryField(T), ptr[1]).zero
    THEN LET entity == ptr[1]
             r == StoreInsert(T, rs, next, entity, now, fault)
         IN  Outcome(r.Error, <<Req("insert", RowOf(T, entity), r)>>, r.rows,
                     IF r.Error = Nil /\ AutoIncrement(T) THEN next + 1 ELSE next)
    ELSE LET entity == ptr[1]
             columns == updateColumns(T, entity, 1)
             r == StoreUpdate(T, rs, entity, Range(columns), now, fault)
         IN  IF Len(columns) = 0 THEN Outcome(Nil, <<>>, rs, next)
             ELSE Outcome(r.Error,
                          <<Req("update", [pk |-> entity[PrimaryField(T).Name],
                                           columns |-> Range(columns)], r)>>,
                          r.rows, next)

(***************************************************************************)
(* Service[T].DeleteByID                                                   *)
(***************************************************************************)
IsDigit(c) == c \in Range(Digits)

DigitValue(c) == (CHOOSE i \in 1..Len(Digits) : Digits[i] = c) - 1

RECURSIVE DecimalValue(_)
DecimalValue(str) ==
    IF str = <<>> THEN 0
    ELSE 10 * DecimalValue(SubSeq(str, 1, Len(str) - 1)) + DigitValue(str[Len(str)])

\* strconv.ParseUint(str, 10, 64) on strings short enough not to overflow 64
\* bits: digits only, at least one.
ParseUint(str) ==
    IF Len(str) > 0 /\ \A i \in 1..Len(str) : IsDigit(str[i])
    THEN [value |-> DecimalValue(str), ok |-> TRUE]
    ELSE [value |-> 0, ok |-> FALSE]

\* DeleteByID that reports success whatever the number of rows affected.
deleteByIDNoRowCheck(T, rs, next, id, fault) ==
    IF TrimSpace(id) = <<>> THEN Outcome("id is required", <<>>, rs, next)
    ELSE LET numeric == ParseUint(id)
             r == IF numeric.ok
                  THEN StoreDeleteByPrimaryKey(T, rs, numeric.value, fault)
                  ELSE StoreDeleteWhere(T, rs, sId, id, fault)
         IN  Outcome(r.Error, <<Req("delete", id, r)>>, r.rows, next)

deleteByID(T, rs, next, id, fault) ==
    IF TrimSpace(id) = <<>> THEN Outcome("id is required", <<>>, rs, next)
    ELSE LET numeric == ParseUint(id)
             r == IF numeric.ok
                  THEN StoreDeleteByPrimaryKey(T, rs, numeric.value, fault)
                  ELSE StoreDeleteWhere(T, rs, sId, id, fault)
         IN  IF r.Error # Nil THEN Outcome(r.Error, <<Req("delete", id, r)>>, r.rows, next)
             ELSE IF r.RowsAffected = 0
                  THEN Outcome(ErrRecordNotFound, <<Req("delete", id, r)>>, r.rows, next)
                  ELSE Outcome(Nil, <<Req("delete", id, r)>>, r.rows, next)

(***************************************************************************)
(* Specification Spec: a service over one record type, its table empty at  *)
(* first, called with SaveOrUpdate and DeleteByID.                         *)
(***************************************************************************)
PointerSets == [T \in RecordTypes |-> {<<>>} \cup {<<e>> : e \in Entities(T)}]

\* The arguments of SaveOrUpdate: nil, or a pointer to an entity.
EntityPointers(T) == PointerSets[T]

DeleteIds == {<<>>, <<" ">>, <<"1">>, <<"2">>, <<"0","1">>, s7, sK, <<"q">>}

\* The record of a call: what was asked, what was sent to the store and
\* whether the store itself
\* failed, the rows before the call, and the error
\* returned.
Call(op, arg, o, fault, before) ==
    [op |-> op, arg |-> arg, err |-> o.err, reqs |-> o.reqs,
     fault |-> fault /\ o.reqs # <<>>, before |-> before]

\* The tables a service may be constructed over.
SeedTables(T) ==
    CASE T = "User" -> {{}, {RowOf(T, Entity(T, <<1, sA, 1>>))}}
      [] T = "Doc"  -> {{}, {RowOf(T, Entity(T, <<sK, sT, 1>>))},
                        {RowOf(T, Entity(T, <<sK, sT, 1>>)), RowOf(T, Entity(T, <<s7, <<>>, 1>>))}}
      [] T = "Item" -> {{}, {RowOf(T, Entity(T, <<sK, s7, sO, <<>>>>)),
                             RowOf(T, Entity(T, <<s7, sK, <<>>, <<>>>>))}}

\* The key the store assigns next: one past the greatest key in the table.
NextKeyOf(T, rs) ==
    IF ~AutoIncrement(T) THEN 1
    ELSE CHOOSE n \in 1..(Cardinality(rs) + 1) :
            /\ \A r \in rs : PkOf(T, r) < n
            /\ n = 1 \/ \E r \in rs : PkOf(T, r) = n - 1

InitStore ==
    /\ rtype \in RecordTypes
    /\ rows \in SeedTables(rtype)
    /\ autoInc = NextKeyOf(rtype, rows)
    /\ last = NoCall
    /\ IdlePure
    /\ IdleLock

SaveOrUpdate ==
    \E ptr \in EntityPointers(rtype), now \in Times, fault \in BOOLEAN :
        LET o == saveOrUpdate(rtype, rows, autoInc, ptr, now, fault)
        IN  /\ o.autoInc <= MaxId + 1
            /\ rows' = o.rows
            /\ autoInc' = o.autoInc
            /\ last' = Call("SaveOrUpdate", ptr, o, fault, rows)
            /\ UNCHANGED <<rtype, pureVars, lockVars>>

DeleteByID ==
    \E id \in DeleteIds, fault \in BOOLEAN :
        LET o == deleteByID(rtype, rows, autoInc, id, fault)
        IN  /\ rows' = o.rows
            /\ autoInc' = o.autoInc
            /\ last' = Call("DeleteByID", id, o, fault, rows)
            /\ UNCHANGED <<rtype, pureVars, lockVars>>

Next == SaveOrUpdate \/ DeleteByID

Spec == InitStore /\ [][Next]_vars

(***************************************************************************)
(* Go's int on a 64-bit platform: IntBytes bytes, least significant first, *)
(* in two's complement.  Arithmetic wraps around.                          *)
(***************************************************************************)
IntBytes == 8

RECURSIVE BytesOf(_, _)
BytesOf(n, w) == IF w = 0 THEN <<>> ELSE <<n % 256>> \o BytesOf(n \div 256, w - 1)

RECURSIVE Complement(_)
Complement(x) == IF x = <<>> THEN <<>> ELSE <<255 - Head(x)>> \o Complement(Tail(x))

\* The int of value n, for n small enough to be written in the model.
GoInt(n) == IF n >= 0 THEN BytesOf(n, IntBytes) ELSE Complement(BytesOf(-n - 1, IntBytes))

IsNegative(x) == x[Len(x)] >= 128

IsZero(x) == \A i \in 1..Len(x) : x[i] = 0

\* x < 1, which for an int is x <= 0.
LessThanOne(x) == IsNegative(x) \/ IsZero(x)

RECURSIVE AddBytes(_, _, _)
AddBytes(x, y, carry) ==
    IF x = <<>> THEN <<>>
    ELSE <<(Head(x) + Head(y) + carry) % 256>>
         \o AddBytes(Tail(x), Tail(y), (Head(x) + Head(y) + carry) \div 256)

\* x - y
Sub(x, y) == AddBytes(x, Complement(y), 1)

RECURSIVE ColumnSum(_, _, _, _)
ColumnSum(x, y, k, i) ==
    IF i > k THEN 0 ELSE x[i] * y[k + 1 - i] + ColumnSum(x, y, k, i + 1)

RECURSIVE MulBytes(_, _, _, _)
MulBytes(x, y, k, carry) ==
    IF k > Len(x) THEN <<>>
    ELSE <<(ColumnSum(x, y, k, 1) + carry) % 256>>
         \o MulBytes(x, y, k + 1, (ColumnSum(x, y, k, 1) + carry) \div 256)

\* x * y in the width of x
Mul(x, y) == MulBytes(x, y, 1, 0)

\* The number of elements, out of n at hand, that a count x >= 0 covers.
CountUpTo(x, n) ==
    IF \E i \in 3..Len(x) : x[i] # 0 THEN n
    ELSE IF x[1] + 256 * x[2] > n THEN n ELSE x[1] + 256 * x[2]

(***************************************************************************)
(* The store's SELECT.  A query is the list of predicates ApplyFilters     *)
(* built; a row is selected when every predicate holds of it.  The stored  *)
(* fields of the model's record types are never NULL.  A numeric column is *)
(* compared as a number with an operand that is one, and values are        *)
(* compared as text otherwise.                                             *)
(***************************************************************************)
Collation ==
    <<"\t", " ", "%", ",", "-", "0", "1", "2", "3", "4", "5", "6", "7", "8", "9", ":",
      "A", "B", "C", "D", "E", "F", "G", "H", "I", "J", "K", "L", "M", "N", "O", "P",
      "Q", "R", "S", "T", "U", "V", "W", "X", "Y", "Z", "_",
      "a", "b", "c", "d", "e", "f", "g", "h", "i", "j", "k", "l", "m", "n", "o", "p",
      "q", "r", "s", "t", "u", "v", "w", "x", "y", "z">>

CharRank(c) == CHOOSE i \in 1..Len(Collation) : Collation[i] = c

RECURSIVE LessText(_, _)
LessText(a, b) ==
    IF b = <<>> THEN FALSE
    ELSE IF a = <<>> THEN TRUE
    ELSE IF Head(a) = Head(b) THEN LessText(Tail(a), Tail(b))
    ELSE CharRank(Head(a)) < CharRank(Head(b))

\* u < v for two values of a column of the given kind.
LessValue(kind, u, v) == IF kind = "string" THEN LessText(u, v) ELSE u < v

\* value < operand and value > operand, for a stored value and a text operand.
LessThanOperand(kind, v, operand) ==
    IF kind # "string" /\ ParseUint(operand).ok THEN v < ParseUint(operand).value
    ELSE LessText(Text(kind, v), operand)

MoreThanOperand(kind, v, operand) ==
    IF kind # "string" /\ ParseUint(operand).ok THEN v > ParseUint(operand).value
    ELSE LessText(operand, Text(kind, v))

\* text LIKE pattern: % stands for any run of characters, _ for any one.
RECURSIVE LikeMatch(_, _)
LikeMatch(text, pattern) ==
    IF pattern = <<>> THEN text = <<>>
    ELSE IF Head(pattern) = "%"
    THEN LikeMatch(text, Tail(pattern)) \/ (text # <<>> /\ LikeMatch(Tail(text), pattern))
    ELSE /\ text # <<>>
         /\ Head(pattern) = "_" \/ Head(pattern) = Head(text)
         /\ LikeMatch(Tail(text), Tail(pattern))

\* The predicate of the given kind and operands holds of the value v of a
\* column of the kind colKind.
Test(kind, colKind, v, vals) ==
    CASE kind = "Eq"    -> Text(colKind, v) = vals[1]
      [] kind = "Neq"   -> Text(colKind, v) # vals[1]
      [] kind = "Gt"    -> MoreThanOperand(colKind, v, vals[1])
      [] kind = "Gte"   -> ~LessThanOperand(colKind, v, vals[1])
      [] kind = "Lt"    -> LessThanOperand(colKind, v, vals[1])
      [] kind = "Lte"   -> ~MoreThanOperand(colKind, v, vals[1])
      [] kind = "Like"  -> LikeMatch(Text(colKind, v), vals[1])
      [] kind = "In"    -> \E i \in 1..Len(vals) : Text(colKind, v) = vals[i]
      [] kind = "NotIn" -> \A i \in 1..Len(vals) : Text(colKind, v) # vals[i]
      [] kind = "IsNull"    -> FALSE
      [] kind = "IsNotNull" -> TRUE

\* The predicate p holds of the row r.
Holds(T, r, p) == Test(p.kind, LookUpField(T, p.col).Kind, r[p.col], p.vals)

Satisfies(T, r, query) == \A i \in 1..Len(query) : Holds(T, r, query[i])

\* The rows of q that satisfy the query, in the order of q.
RECURSIVE SelectRows(_, _, _)
SelectRows(T, q, query) ==
    IF q = <<>> THEN <<>>
    ELSE (IF Satisfies(T, Head(q), query) THEN <<Head(q)>> ELSE <<>>)
         \o SelectRows(T, Tail(q), query)

\* The columns a query names.
QueryColumns(query) == {query[i].col : i \in 1..Len(query)}

\* The row a comes strictly before the row b under the ORDER BY keys.
RECURSIVE Precedes(_, _, _, _)
Precedes(T, a, b, keys) ==
    IF keys = <<>> THEN FALSE
    ELSE LET c == Head(keys).Column
         IN  IF a[c] = b[c] THEN Precedes(T, a, b, Tail(keys))
             ELSE IF Head(keys).Desc
                  THEN LessValue(LookUpField(T, c).Kind, b[c], a[c])
                  ELSE LessValue(LookUpField(T, c).Kind, a[c], b[c])

RECURSIVE InsertSorted(_, _, _, _)
InsertSorted(T, sorted, x, keys) ==
    IF sorted = <<>> THEN <<x>>
    ELSE IF Precedes(T, x, Head(sorted), keys) THEN <<x>> \o sorted
    ELSE <<Head(sorted)>> \o InsertSorted(T, Tail(sorted), x, keys)

\* The rows of q sorted by the keys; rows the keys do not tell apart stay in
\* the order the store holds them.
RECURSIVE SortRows(_, _, _)
SortRows(T, q, keys) ==
    IF q = <<>> THEN <<>>
    ELSE InsertSorted(T, SortRows(T, SubSeq(q, 1, Len(q) - 1), keys), q[Len(q)], keys)

\* query.Count(&total): SELECT count(*) with the query's predicates.
StoreCount(T, rs, query, fault) ==
    IF fault THEN [Error |-> ErrStore, total |-> 0]
    ELSE IF ~(QueryColumns(query) \subseteq Columns(T))
    THEN [Error |-> ErrUnknownColumn, total |-> 0]
    ELSE [Error |-> Nil, total |-> Cardinality({r \in rs : Satisfies(T, r, query)})]

\* OFFSET offset, which GORM writes when offset > 0.
Skip(q, offset) ==
    IF LessThanOne(offset) THEN q ELSE SubSeq(q, CountUpTo(offset, Len(q)) + 1, Len(q))

\* LIMIT limit, which GORM writes when limit >= 0.
Take(q, limit) ==
    IF IsNegative(limit) THEN q ELSE SubSeq(q, 1, CountUpTo(limit, Len(q)))

\* The answer to a SELECT whose whole selection, in the statement's order, is
\* ordered: list is the part of it the statement asks for.
Found(ordered, limit, offset) ==
    [Error |-> Nil, list |-> Take(Skip(ordered, offset), limit), ordered |-> ordered]

\* query.Order(...).Limit(limit).Offset(offset).Find(&list) over a table the
\* store holds in the order heap.
StoreFind(T, heap, query, keys, limit, offset, fault) ==
    IF fault THEN [Error |-> ErrStore, list |-> <<>>, ordered |-> <<>>]
    ELSE IF ~((QueryColumns(query) \cup {keys[i].Column : i \in 1..Len(keys)})
                 \subseteq Columns(T))
    THEN [Error |-> ErrUnknownColumn, list |-> <<>>, ordered |-> <<>>]
    ELSE Found(SortRows(T, SelectRows(T, heap, query), keys), limit, offset)

(***************************************************************************)
(* Service[T].Paginate                                                     *)
(***************************************************************************)
ColumnNameChars ==
    DOMAIN UpperToLower \cup {UpperToLower[c] : c \in DOMAIN UpperToLower}
        \cup Range(Digits) \cup {"_"}

\* columnNamePattern.MatchString: ^[a-zA-Z0-9_]+$
MatchColumnName(name) == Len(name) > 0 /\ \A i \in 1..Len(name) : name[i] \in ColumnNameChars

Allowlists ==
    [T \in RecordTypes |->
        {n \in {IF f.DBName = <<>> THEN f.Name ELSE f.DBName : f \in FieldSet(T)} :
            MatchColumnName(n)}]

\* columnAllowlist over a schema that parses: the column name of every field,
\* or the field's Go name when it has no column, if it matches the pattern.
columnAllowlist(T) == Allowlists[T]

DefaultSize == 10

\* What Paginate returns, with the selection the store ordered.
PageOutcome(list, total, err, ordered) ==
    [items |-> list, total |-> total, err |-> err, ordered |-> ordered]

\* Paginate that takes the length of the fetched page for the total.
paginateCountsPage(T, count, heap, page, size, fs, os, visit, fault) ==
    LET p       == IF LessThanOne(page) THEN GoInt(1) ELSE page
        s       == IF LessThanOne(size) THEN GoInt(DefaultSize) ELSE size
        offset  == Mul(Sub(p, GoInt(1)), s)
        allowed == columnAllowlist(T)
        query   == ApplyFilters(<<>>, fs, allowed, visit)
        orderBy == sanitizeOrders(os, allowed)
        keys    == IF Len(orderBy) = 0 THEN <<[Column |-> sId, Desc |-> FALSE]>> ELSE orderBy
        found   == StoreFind(T, heap, query, keys, s, offset, fault # "none")
    IN  IF found.Error # Nil THEN PageOutcome(<<>>, 0, found.Error, <<>>)
        ELSE PageOutcome(found.list, Len(found.list), Nil, found.ordered)

\* The query Paginate builds before it counts (lines 130-132).
pageQuery(T, fs, visit) == ApplyFilters(<<>>, fs, columnAllowlist(T), visit)

\* Paginate, given the store's answer count to its Count statement and the
\* table, in the order heap, on which its Find statement runs: the two are
\* separate statements and the table may change between them.  fault names
\* the statement the store itself fails: "none", "count" or "find".
paginate(T, count, heap, page, size, fs, os, visit, fault) ==
    LET p       == IF LessThanOne(page) THEN GoInt(1) ELSE page
        s       == IF LessThanOne(size) THEN GoInt(DefaultSize) ELSE size
        offset  == Mul(Sub(p, GoInt(1)), s)
        allowed == columnAllowlist(T)
        query   == pageQuery(T, fs, visit)
        orderBy == sanitizeOrders(os, allowed)
        keys    == IF Len(orderBy) = 0 THEN <<[Column |-> sId, Desc |-> FALSE]>> ELSE orderBy
        found   == StoreFind(T, heap, query, keys, s, offset, fault = "find")
    IN  IF count.Error # Nil THEN PageOutcome(<<>>, 0, count.Error, <<>>)
        ELSE IF found.Error # Nil THEN PageOutcome(<<>>, 0, found.Error, <<>>)
        ELSE PageOutcome(found.list, count.total, Nil, found.ordered)

(***************************************************************************)
(* C3, C4.  SaveOrUpdate.                                                  *)
(***************************************************************************)
\* The field f of the entity e holds the zero value of its type.
AtZero(f, e) == e[f.Name] = ZeroOf(f.Kind)

SavedEntity == last.arg[1]

SaveWithPointer == last.op = "SaveOrUpdate" /\ last.arg # <<>>

\* C3: SaveOrUpdate on a non-nil record whose primary key is at its zero value
\* sends the store exactly one request, an insert of the full record, and so no
\* update, whatever the other fields hold; the insert's error is the result.
C3_ZeroKeyInserts ==
    (SaveWithPointer /\ AtZero(PrimaryField(rtype), SavedEntity)) =>
        /\ Len(last.reqs) = 1
        /\ last.reqs[1].kind = "insert"
        /\ last.reqs[1].arg = RowOf(rtype, SavedEntity)
        /\ last.err = last.reqs[1].Error

\* A user with no key, a name and an age was saved into a table that held one
\* row: one insert was sent and the table now holds the record under the key
\* the store assigned.
C3_Witness ==
    /\ rtype = "User"
    /\ SaveWithPointer
    /\ SavedEntity = Entity("User", <<0, sA, 1>>)
    /\ last.before # {}
    /\ last.err = Nil
    /\ Len(last.reqs) = 1 /\ last.reqs[1].kind = "insert"
    /\ rows = last.before \cup {RowOf("User", Entity("User", <<2, sA, 1>>))}

\* The column set W of the claim: the stored, updatable, non-primary fields
\* that are auto-managed or hold a non-zero value.
WriteSet(T, e) ==
    {f.DBName : f \in {g \in FieldSet(T) :
        /\ g.Updatable /\ ~g.PrimaryKey /\ g.DBName # <<>>
        /\ (g.AutoUpdateTime \/ ~AtZero(g, e))}}

\* C4: SaveOrUpdate on a record with a non-zero primary key writes exactly W.
\* When W is empty no request is sent, the call succeeds and the table is as
\* it was.  Otherwise one update of exactly the columns W of the row with the
\* record's key is sent and its error is the result; every row keeps its key
\* and its columns outside W, rows with another key are untouched, and on
\* success the row with the record's key holds the record's values in the
\* columns of W (the current time in an auto-managed one).
C4_WritesExactlyW ==
    (SaveWithPointer /\ ~AtZero(PrimaryField(rtype), SavedEntity)) =>
        LET W  == WriteSet(rtype, SavedEntity)
            pk == SavedEntity[PrimaryField(rtype).Name]
        IN  /\ W = {} => last.reqs = <<>> /\ last.err = Nil /\ rows = last.before
            /\ W # {} =>
                  /\ Len(last.reqs) = 1
                  /\ last.reqs[1].kind = "update"
                  /\ last.reqs[1].arg = [pk |-> pk, columns |-> W]
                  /\ last.err = last.reqs[1].Error
            /\ Cardinality(rows) = Cardinality(last.before)
            /\ \A r \in last.before : \E n \in rows :
                  /\ PkOf(rtype, n) = PkOf(rtype, r)
                  /\ \A c \in Columns(rtype) \ W : n[c] = r[c]
                  /\ (PkOf(rtype, r) # pk \/ last.err # Nil) => n = r
                  /\ (PkOf(rtype, r) = pk /\ last.err = Nil) =>
                        \A c \in W :
                            IF LookUpField(rtype, c).AutoUpdateTime
                            THEN n[c] \in Times
                            ELSE n[c] = RowOf(rtype, SavedEntity)[c]

\* A document with key k, no title and no update time was saved at time 2 over
\* the stored document k: W was the update time alone, which now reads 2, and
\* the stored title stayed.
C4_Witness ==
    /\ rtype = "Doc"
    /\ SaveWithPointer
    /\ SavedEntity = Entity("Doc", <<sK, <<>>, 0>>)
    /\ RowOf("Doc", Entity("Doc", <<sK, sT, 1>>)) \in last.before
    /\ Len(last.reqs) = 1
    /\ last.reqs[1].arg.columns = {sUpdatedAt}
    /\ last.err = Nil
    /\ RowOf("Doc", Entity("Doc", <<sK, sT, 2>>)) \in rows

(***************************************************************************)
(* C7, C8.  DeleteByID.                                                    *)
(***************************************************************************)
DeleteWithId == last.op = "DeleteByID" /\ TrimSpace(last.arg) # <<>>

\* The form of id the claim compares the primary key with: the number's
\* decimal text when id parses as a non-negative integer, id itself otherwise.
KeyForm(id) == IF ParseUint(id).ok THEN Decimal(ParseUint(id).value) ELSE id

\* C7 as stated: when the store itself does not fail, DeleteByID removes the
\* rows whose primary key equals id, in its numeric form when id parses as a
\* non-negative integer and as the string otherwise, and removes no other row,
\* whatever the primary key's column is called.
C7_AsStated ==
    (DeleteWithId /\ ~last.fault) =>
        rows = {r \in last.before :
                    ColText(rtype, r, PrimaryField(rtype).DBName) # KeyForm(last.arg)}

\* C8: DeleteByID with a non-blank id sends one delete to the store.  It
\* returns the not-found error exactly when the store answered without error
\* and affected no row; a store error is returned as it is; nil is returned
\* only when at least one row was deleted; and the table is unchanged whenever
\* not-found is returned.
C8_DeleteResult ==
    DeleteWithId =>
        /\ Len(last.reqs) = 1
        /\ last.err = ErrRecordNotFound <=>
              (last.reqs[1].Error = Nil /\ last.reqs[1].RowsAffected = 0)
        /\ last.reqs[1].Error # Nil => last.err = last.reqs[1].Error
        /\ last.err = Nil =>
              /\ last.reqs[1].RowsAffected >= 1
              /\ Cardinality(last.before \ rows) >= 1
        /\ last.err = ErrRecordNotFound => rows = last.before

\* Key 2 was deleted from a user table that holds only key 1: the store
\* answered without error, no row was affected, not-found was returned and the
\* row is still there.
C8_Witness ==
    /\ rtype = "User"
    /\ DeleteWithId
    /\ last.arg = <<"2">>
    /\ last.reqs[1].Error = Nil
    /\ last.err = ErrRecordNotFound
    /\ rows = last.before
    /\ \E r \in rows : PkOf("User", r) = 1

(***************************************************************************)
(* Specification SpecPage: one Paginate call on a service constructed over *)
(* a table of one of the record types.                                     *)
(***************************************************************************)
PageUsers(n) ==
    {RowOf("User", Entity("User", <<i, IF i % 3 = 0 THEN sB ELSE sA, i % 2>>)) : i \in 1..n}

PageTables(T) ==
    CASE T = "User" -> {PageUsers(0), PageUsers(3), PageUsers(MaxRows)}
      [] T = "Doc"  -> {{RowOf(T, Entity(T, <<sK, sT, 1>>)), RowOf(T, Entity(T, <<s7, <<>>, 1>>))}}
      [] T = "Item" -> {{RowOf(T, Entity(T, <<sK, s7, sO, <<>>>>)),
                         RowOf(T, Entity(T, <<s7, sK, <<>>, <<>>>>))}}

\* The rows of rs by ascending primary key.
RECURSIVE KeyOrder(_, _)
KeyOrder(T, rs) ==
    IF rs = {} THEN <<>>
    ELSE LET m == CHOOSE r \in rs : \A q \in rs \ {r} :
                      LessValue(PrimaryField(T).Kind, PkOf(T, r), PkOf(T, q))
         IN  <<m>> \o KeyOrder(T, rs \ {m})

Reverse(q) == [i \in 1..Len(q) |-> q[Len(q) + 1 - i]]

\* The orders in which the store may hold the rows, which is the order it
\* returns rows in when the statement's ORDER BY does not tell them apart:
\* the model takes key order and its reverse.
HeapOrders(T, rs) == {KeyOrder(T, rs), Reverse(KeyOrder(T, rs))}

\* 2^62 + 1
HugePage == <<1>> \o BytesOf(0, IntBytes - 2) \o <<64>>

PageNumbers == {GoInt(-1), GoInt(0), GoInt(1), GoInt(2), GoInt(3), HugePage}

PageSizes == {GoInt(-5), GoInt(0), GoInt(1), GoInt(2), GoInt(4), GoInt(5)}

PageFilters ==
    { <<>>,
      (sAge \o Sep \o OpWord[filterGte]) :> <<<<"1">>>>,
      (sName :> <<sA>>) @@ (sX :> <<<<"1">>>>),
      (sId \o Sep \o OpWord[filterIn]) :> <<<<"1", ",", "2">>>>,
      sNote :> <<sO>>,
      (sTitle \o Sep \o OpWord[filterLike]) :> <<sT>>,
      ((sId \o Sep \o OpWord[filterGte]) :> <<<<"2">>>>)
          @@ ((sId \o Sep \o OpWord[filterLte]) :> <<<<"3">>>>) }

OrderBy(column, desc) == [Column |-> column, Desc |-> desc]

PageOrders ==
    { <<>>,
      <<OrderBy(sId, TRUE)>>,
      <<OrderBy(sAge, FALSE), OrderBy(<<" ">> \o sId, TRUE)>>,
      <<OrderBy(sX, FALSE)>>,
      <<OrderBy(sCode, TRUE)>> }

PageFaults == {"none", "count", "find"}

InitPage ==
    /\ rtype \in RecordTypes
    /\ rows \in PageTables(rtype)
    /\ autoInc = NextKeyOf(rtype, rows)
    /\ last = NoCall
    /\ IdlePure
    /\ IdleLock

\* The record of a Paginate call: pc is "find" between its Count and its Find
\* statement and "done" when it has returned; count is the store's answer to
\* the Count statement, before the table that statement ran on, and writes
\* the number of writes other requests committed since.
PageCall(pc, arg, visit, fault, count, before, writes, o) ==
    [op |-> "Paginate", pc |-> pc, arg |-> arg, visit |-> visit, fault |-> fault,
     count |-> count, before |-> before, writes |-> writes,
     err |-> o.err, items |-> o.items, total |-> o.total, ordered |-> o.ordered]

\* Paginate up to the answer of its Count statement (lines 111-136); when the
\* count fails Paginate returns.
Paginate ==
    /\ last = NoCall
    /\ \E page \in PageNumbers, size \in PageSizes, fs \in PageFilters, os \in PageOrders,
          fault \in PageFaults :
          \E visit \in VisitOrders(DOMAIN fs) :
              LET count == StoreCount(rtype, rows, pageQuery(rtype, fs, visit),
                                      fault = "count")
                  arg   == [page |-> page, size |-> size, filters |-> fs, orders |-> os]
              IN  last' = IF count.Error # Nil
                          THEN PageCall("done", arg, visit, fault, count, rows, 0,
                                        paginate(rtype, count, <<>>, page, size, fs, os,
                                                 visit, fault))
                          ELSE PageCall("find", arg, visit, fault, count, rows, 0,
                                        PageOutcome(<<>>, count.total, Nil, <<>>))
    /\ UNCHANGED <<rtype, rows, autoInc, pureVars, lockVars>>

\* The records another request saves while a Paginate call is between its
\* statements: a new record, and the first record of the table changed.
WriterPointers(T) ==
    CASE T = "User" -> {<<Entity(T, <<0, sA, 1>>)>>, <<Entity(T, <<1, sB, 0>>)>>}
      [] T = "Doc"  -> {<<Entity(T, <<sK, <<>>, 0>>)>>}
      [] T = "Item" -> {<<Entity(T, <<sK, sK, <<>>, <<>>>>)>>}

\* Another request commits a write between the two statements of Paginate:
\* a DeleteByID or a SaveOrUpdate that changes the table.
ConcurrentWrite ==
    /\ last.op = "Paginate" /\ last.pc = "find"
    /\ last.writes < MaxWrites
    /\ \E o \in {deleteByID(rtype, rows, autoInc, id, FALSE) : id \in DeleteIds}
               \cup {saveOrUpdate(rtype, rows, autoInc, ptr, 1, FALSE) :
                         ptr \in WriterPointers(rtype)} :
          /\ o.rows # rows
          /\ rows' = o.rows
          /\ autoInc' = o.autoInc
    /\ last' = [last EXCEPT !.writes = @ + 1]
    /\ UNCHANGED <<rtype, pureVars, lockVars>>

\* The rest of Paginate (lines 138-151): the Find statement, on the table as
\* it is now, and the return.
PaginateFind ==
    /\ last.op = "Paginate" /\ last.pc = "find"
    /\ \E heap \in HeapOrders(rtype, rows) :
          last' = PageCall("done", last.arg, last.visit, last.fault, last.count,
                           last.before, last.writes,
                           paginate(rtype, last.count, heap, last.arg.page, last.arg.size,
                                    last.arg.filters, last.arg.orders, last.visit,
                                    last.fault))
    /\ UNCHANGED <<rtype, rows, autoInc, pureVars, lockVars>>

NextPage == Paginate \/ ConcurrentWrite \/ PaginateFind

SpecPage == InitPage /\ [][NextPage]_vars

(***************************************************************************)
(* C5, C6.  Paginate.                                                      *)
(***************************************************************************)
\* A Paginate call has returned.
PaginateDone == last.op = "Paginate" /\ last.pc = "done"

PaginateOk == PaginateDone /\ last.err = Nil

\* p and s of the claims: the page, or 1 when it is below 1, and the size, or
\* 10 when it is not above 0.
EffectivePage(page) == IF IsNegative(page) \/ IsZero(page) THEN GoInt(1) ELSE page

EffectiveSize(size) == IF IsNegative(size) \/ IsZero(size) THEN GoInt(10) ELSE size

\* x in twice the width, for x >= 0, so that a product is exact.
Wide(x) == x \o BytesOf(0, Len(x))

\* C5 as stated: for any integers page and size, a successful Paginate returns
\* exactly the rows at the 0-based positions (p-1)*s .. (p-1)*s+s-1 of the
\* filtered, ordered row sequence, fewer when the sequence ends earlier; the
\* product is the integers' product.
C5_AsStated ==
    PaginateOk =>
        LET p     == EffectivePage(last.arg.page)
            s     == EffectiveSize(last.arg.size)
            n     == Len(last.ordered)
            first == CountUpTo(Mul(Wide(Sub(p, GoInt(1))), Wide(s)), n)
        IN  last.items = SubSeq(last.ordered, first + 1, first + CountUpTo(s, n - first))

\* The number of rows of the table rs that satisfy the predicates the filters
\* of the call stand for, visited in the order v.
Matching(rs, v) ==
    Cardinality({r \in rs : Satisfies(rtype, r, pageQuery(rtype, last.arg.filters, v))})

\* C6: for every successful Paginate call the number of items is at most the
\* effective size, and total is the number of rows that satisfied the
\* predicates the filters stand for, in whatever order the filter map is
\* visited, in the table the Count statement ran on: a number that page, size
\* and order have no part in, and, when no other request wrote between the
\* Count and the Find statement, the number of such rows in the table the
\* call returns on.
C6_ItemsWithinSizeTotalIsCount ==
    PaginateOk =>
        /\ CountUpTo(EffectiveSize(last.arg.size), Len(last.items)) = Len(last.items)
        /\ \A v \in VisitOrders(DOMAIN last.arg.filters) :
              /\ last.total = Matching(last.before, v)
              /\ last.writes = 0 => last.total = Matching(rows, v)

\* Page 2 of size 2 of the users of age at least 1, highest key first: two
\* items, and a total that counts rows on other pages too and fewer rows than
\* the table holds.
C6_Witness ==
    /\ rtype = "User"
    /\ PaginateOk
    /\ last.arg.page = GoInt(2)
    /\ last.arg.size = GoInt(2)
    /\ last.arg.filters = ((sAge \o Sep \o OpWord[filterGte]) :> <<<<"1">>>>)
    /\ last.arg.orders = <<OrderBy(sId, TRUE)>>
    /\ last.writes = 0
    /\ Len(last.items) = 2
    /\ last.total > 4
    /\ last.total < Cardinality(rows)

(***************************************************************************)
(* C11.  The order of the fetch.                                           *)
(***************************************************************************)
\* The order list Paginate resolves from the call's order argument.
ResolvedOrders == sanitizeOrders(last.arg.orders, columnAllowlist(rtype))

\* Every predicate the filters stand for is on a column of the table.
FiltersOnColumns ==
    \A k \in DOMAIN last.arg.filters :
        QueryColumns(applyFilter(k, last.arg.filters[k], columnAllowlist(rtype)))
            \subseteq Columns(rtype)

\* The rows of q are in the order of the keys: no row comes before a row that
\* precedes it.
InOrder(T, q, keys) ==
    \A i, j \in 1..Len(q) : i < j => ~Precedes(T, q[j], q[i], keys)

\* C11 as stated: when the store itself does not fail and the filters are on
\* columns of the table, a Paginate call whose resolved order list is empty
\* fetches the rows in ascending order of the record type's primary key, and a
\* call whose resolved list is not empty fetches them in the order of exactly
\* that list.
C11_AsStated ==
    (PaginateDone /\ last.fault = "none" /\ FiltersOnColumns) =>
        /\ ResolvedOrders = <<>> =>
              /\ last.err = Nil
              /\ InOrder(rtype, last.ordered,
                         <<[Column |-> PrimaryField(rtype).DBName, Desc |-> FALSE]>>)
        /\ ResolvedOrders # <<>> /\ last.err = Nil =>
              InOrder(rtype, last.ordered, ResolvedOrders)

(***************************************************************************)
(* C18.  The errors of Paginate.                                           *)
(***************************************************************************)
\* The same call without filters and orders, on a store that does not fail of
\* itself.
PlainPaginate ==
    paginate(rtype, StoreCount(rtype, last.before, <<>>, FALSE),
             CHOOSE h \in HeapOrders(rtype, last.before) : TRUE,
             last.arg.page, last.arg.size, <<>>, <<>>, <<>>, "none")

\* C18 as stated: a Paginate call that returns an error returns a nil list and
\* total 0, and no filter map or order list makes Paginate return an error by
\* itself: on a store that does not fail of itself and answers the call
\* without filters and orders, the call with them returns no error.
C18_AsStated ==
    PaginateDone =>
        /\ last.err # Nil => last.items = <<>> /\ last.total = 0
        /\ (last.fault = "none" /\ PlainPaginate.err = Nil) => last.err = Nil

(***************************************************************************)
(* C19.  The clauses of ApplyFilters are conjoined.                        *)
(***************************************************************************)
\* The row r satisfies the clauses of every key of the filter map fs.
SatisfiesEvery(T, r, fs) ==
    \A k \in DOMAIN fs : Satisfies(T, r, applyFilter(k, fs[k], columnAllowlist(T)))

\* C19: the rows a successful Paginate call selects, before paging, are the
\* rows of the table that satisfy the clauses of every key of the filter map,
\* in whatever order the map was visited, several keys on one column included.
C19_Conjunction ==
    PaginateOk =>
        Range(last.ordered) = {r \in rows : SatisfiesEvery(rtype, r, last.arg.filters)}

\* The users with id__gte=2 and id__lte=3 out of a table of more: the rows
\* with the keys 2 and 3.
C19_Witness ==
    /\ rtype = "User"
    /\ PaginateOk
    /\ DOMAIN last.arg.filters = {sId \o Sep \o OpWord[filterGte], sId \o Sep \o OpWord[filterLte]}
    /\ Cardinality(rows) > 3
    /\ {r[sId] : r \in Range(last.ordered)} = {2, 3}

(***************************************************************************)
(* C20.  SaveOrUpdate with a key never inserts.                            *)
(***************************************************************************)
\* The primary keys of the rows rs.
KeysOf(T, rs) == {PkOf(T, r) : r \in rs}

\* C20: SaveOrUpdate on a record whose primary key is not at its zero value
\* sends the store no insert: it sends at most one request, an update keyed on
\* that primary key, and the table holds rows under the same keys as before;
\* when no stored row has that key and the store itself does not fail, the
\* rows are those before the call and the call returns no error.
C20_KeyedSaveNeverInserts ==
    (SaveWithPointer /\ ~AtZero(PrimaryField(rtype), SavedEntity)) =>
        /\ Len(last.reqs) <= 1
        /\ \A i \in 1..Len(last.reqs) :
              /\ last.reqs[i].kind = "update"
              /\ last.reqs[i].arg.pk = SavedEntity[PrimaryField(rtype).Name]
        /\ KeysOf(rtype, rows) = KeysOf(rtype, last.before)
        /\ Cardinality(rows) = Cardinality(last.before)
        /\ (~last.fault /\ SavedEntity[PrimaryField(rtype).Name] \notin KeysOf(rtype, last.before))
              => rows = last.before /\ last.err = Nil

\* A user with the key 2 and a name was saved into a table that holds only
\* the key 1: one update was sent, it matched no row, the table is as it was
\* and the call returned nil.
C20_Witness ==
    /\ rtype = "User"
    /\ SaveWithPointer
    /\ SavedEntity = Entity("User", <<2, sA, 0>>)
    /\ KeysOf("User", last.before) = {1}
    /\ Len(last.reqs) = 1 /\ last.reqs[1].kind = "update"
    /\ last.reqs[1].RowsAffected = 0
    /\ rows = last.before
    /\ last.err = Nil

(***************************************************************************)
(* Specification SpecClause: ApplyFilters on a filter map of one key on    *)
(* the allowlisted column a, over every operator and a set of raw values.  *)
(***************************************************************************)
ClauseKey(op) == sA \o Sep \o OpWord[op]

ClauseKeys == {sA} \cup {ClauseKey(op) : op \in FilterOps}

ClauseRawValues ==
    { <<>>, <<" ">>, <<"f">>, <<" ", "f">>, <<"%">>, <<"f", "_">>,
      <<"1">>, <<"1", ",", "2">>, <<" ", "1", " ", ",", " ", ",", "2">>, <<",">>,
      <<"0">>, <<"F", "a", "l", "s", "e">>, <<"O", "F", "F">>, <<"n", "o">>,
      <<"t", "r", "u", "e">>, <<"x">> }

ClauseValueLists == UNION {[1..n -> ClauseRawValues] : n \in 0..MaxValues}

InitClause ==
    /\ filters \in {k :> vals : k \in ClauseKeys, vals \in ClauseValueLists}
    /\ allowedF = {sA}
    /\ visitF = <<>>
    /\ queryOut = <<>>
    /\ IdleKey /\ IdleOrder /\ IdleSan /\ IdleStore
    /\ IdleLock

NextClause == ApplyFiltersCall

SpecClause == InitClause /\ [][NextClause]_vars

(***************************************************************************)
(* C12 .. C16.  The predicates of one clause.                              *)
(***************************************************************************)
\* ApplyFilters was applied to a filter map whose one key is k.
ClauseBuilt(k) == queryOut # <<>> /\ DOMAIN filters = {k}

\* The operand list of the claims: the raw values trimmed, the empty ones
\* dropped.
Operands(k) == TrimmedNonEmpty(filters[k])

\* The trimmed, non-empty comma-separated parts of every raw value, in input
\* order.
RECURSIVE FlatParts(_)
FlatParts(vals) ==
    IF vals = <<>> THEN <<>>
    ELSE TrimmedNonEmpty(Split(Head(vals), ",")) \o FlatParts(Tail(vals))

HasWildcard(str) == \E i \in 1..Len(str) : str[i] = "%" \/ str[i] = "_"

\* C12: for the allowlisted column with operator like, the pattern is the
\* first operand as it is when it holds '%' or '_' and '%' + operand + '%'
\* when it holds neither; with no operand no predicate is emitted.
C12_LikePattern ==
    ClauseBuilt(ClauseKey(filterLike)) =>
        LET ops == Operands(ClauseKey(filterLike))
        IN  queryOut[1] =
                IF ops = <<>> THEN <<>>
                ELSE IF HasWildcard(ops[1]) THEN <<Pred("Like", sA, <<ops[1]>>)>>
                ELSE <<Pred("Like", sA, <<<<"%">> \o ops[1] \o <<"%">>>>)>>

\* like was given a blank value and then f_: the pattern is f_ as it is.
C12_Witness ==
    /\ ClauseBuilt(ClauseKey(filterLike))
    /\ filters[ClauseKey(filterLike)] = <<<<" ">>, <<"f", "_">>>>
    /\ queryOut = <<<<Pred("Like", sA, <<<<"f", "_">>>>)>>>>

\* C13: for the allowlisted column with operator between, no predicate is
\* emitted when fewer than two parts remain, and with two or more exactly
\* column >= first and column <= second are, from the first two parts.
C13_Between ==
    ClauseBuilt(ClauseKey(filterBetween)) =>
        LET parts == FlatParts(filters[ClauseKey(filterBetween)])
        IN  queryOut[1] =
                IF Len(parts) < 2 THEN <<>>
                ELSE <<Pred("Gte", sA, <<parts[1]>>), Pred("Lte", sA, <<parts[2]>>)>>

\* between was given " 1 , ,2" and x: the bounds are 1 and 2.
C13_Witness ==
    /\ ClauseBuilt(ClauseKey(filterBetween))
    /\ filters[ClauseKey(filterBetween)] =
           <<<<" ", "1", " ", ",", " ", ",", "2">>, <<"x">>>>
    /\ queryOut = <<<<Pred("Gte", sA, <<<<"1">>>>), Pred("Lte", sA, <<<<"2">>>>)>>>>

\* C14: for the allowlisted column with operator in (nin), one IN (NOT IN)
\* predicate over exactly the parts of all the raw values is emitted, and no
\* predicate when there is no part.
C14_InList ==
    /\ ClauseBuilt(ClauseKey(filterIn)) =>
          LET parts == FlatParts(filters[ClauseKey(filterIn)])
          IN  queryOut[1] = IF parts = <<>> THEN <<>> ELSE <<Pred("In", sA, parts)>>
    /\ ClauseBuilt(ClauseKey(filterNotIn)) =>
          LET parts == FlatParts(filters[ClauseKey(filterNotIn)])
          IN  queryOut[1] = IF parts = <<>> THEN <<>> ELSE <<Pred("NotIn", sA, parts)>>

\* in was given x and "1,2": the list is x, 1, 2.
C14_Witness ==
    /\ ClauseBuilt(ClauseKey(filterIn))
    /\ filters[ClauseKey(filterIn)] = <<<<"x">>, <<"1", ",", "2">>>>
    /\ queryOut = <<<<Pred("In", sA, <<<<"x">>, <<"1">>, <<"2">>>>)>>>>

FalseLike(str) ==
    ToLower(str) \in {<<"0">>, <<"f","a","l","s","e">>, <<"n","o">>, <<"n">>, <<"o","f","f">>}

\* C15: for the allowlisted column, isnull emits IS NOT NULL exactly when the
\* first operand is false-like and IS NULL in every other case, no operand
\* included; notnull emits IS NOT NULL whatever the operands.
C15_NullTests ==
    /\ ClauseBuilt(ClauseKey(filterIsNull)) =>
          LET ops == Operands(ClauseKey(filterIsNull))
          IN  queryOut[1] =
                  IF ops # <<>> /\ FalseLike(ops[1])
                  THEN <<Pred("IsNotNull", sA, <<>>)>>
                  ELSE <<Pred("IsNull", sA, <<>>)>>
    /\ ClauseBuilt(ClauseKey(filterNotNull)) =>
          queryOut[1] = <<Pred("IsNotNull", sA, <<>>)>>

\* isnull was given OFF and then true: IS NOT NULL.
C15_Witness ==
    /\ ClauseBuilt(ClauseKey(filterIsNull))
    /\ filters[ClauseKey(filterIsNull)] = <<<<"O", "F", "F">>, <<"t", "r", "u", "e">>>>
    /\ queryOut = <<<<Pred("IsNotNull", sA, <<>>)>>>>

\* C16 as stated: a key with no operator suffix that is given several values,
\* or a comma-separated one, becomes an IN predicate over all those values.
C16_AsStated ==
    ClauseBuilt(sA) =>
        LET parts == FlatParts(filters[sA])
        IN  Len(parts) >= 2 => queryOut[1] = <<Pred("In", sA, parts)>>

(***************************************************************************)
(* Handler[T].List.  The URL query is a map from keys to their values, in  *)
(* the order supplied, at least one per key; the service is the interface  *)
(* ServiceContract, whose Paginate succeeds or fails.                      *)
(***************************************************************************)
sPage       == <<"p","a","g","e">>
sSize       == <<"s","i","z","e">>
sOrder      == <<"o","r","d","e","r">>
sSort       == <<"s","o","r","t">>
sOrderUnder == <<"o","r","d","e","r","_","b","y">>
sOrderBy    == <<"o","r","d","e","r","B","y">>

\* The keys parseOrderOptions reads, in the order it reads them.
OrderKeys == <<sOrder, sSort, sOrderUnder, sOrderBy>>

\* The keys List keeps out of the filters, the last one forgotten.
ReservedKeysButOrderBy == {sPage, sSize, sOrder, sSort, sOrderUnder}

\* The keys List keeps out of the filters.
ReservedKeys == {sPage, sSize, sOrder, sSort, sOrderUnder, sOrderBy}

\* c.DefaultQuery(k, def): the first value of the key, or def without the key.
DefaultQuery(q, k, def) == IF k \in DOMAIN q THEN q[k][1] ELSE def

\* strconv.Atoi on strings short enough not to overflow: an optional sign and
\* at least one digit.
Atoi(str) ==
    LET signed == Len(str) > 0 /\ str[1] \in {"+", "-"}
        digits == IF signed THEN Tail(str) ELSE str
    IN  IF ParseUint(digits).ok
        THEN [value |-> IF signed /\ str[1] = "-" THEN 0 - ParseUint(digits).value
                        ELSE ParseUint(digits).value,
              ok |-> TRUE]
        ELSE [value |-> 0, ok |-> FALSE]

\* The first loop of parseOrderOptions: the values of the keys, key after key.
RECURSIVE rawOrdersOf(_, _)
rawOrdersOf(values, ks) ==
    IF ks = <<>> THEN <<>>
    ELSE (IF Head(ks) \in DOMAIN values THEN values[Head(ks)] ELSE <<>>)
         \o rawOrdersOf(values, Tail(ks))

\* The second loop of parseOrderOptions: the options that parse.
RECURSIVE parsedOptions(_)
parsedOptions(raws) ==
    IF raws = <<>> THEN <<>>
    ELSE (IF parseOrderOption(Head(raws)).ok THEN <<parseOrderOption(Head(raws)).opt>> ELSE <<>>)
         \o parsedOptions(Tail(raws))

parseOrderOptions(values) == parsedOptions(rawOrdersOf(values, OrderKeys))

\* The values that are not blank, as they were supplied.
RECURSIVE cleanedValues(_)
cleanedValues(vals) ==
    IF vals = <<>> THEN <<>>
    ELSE (IF TrimSpace(Head(vals)) # <<>> THEN <<Head(vals)>> ELSE <<>>)
         \o cleanedValues(Tail(vals))

\* The loop of List over the query, visited in the order visit, that fills
\* the filter map acc.
RECURSIVE listFilters(_, _, _)
listFilters(q, visit, acc) ==
    IF visit = <<>> THEN acc
    ELSE IF Head(visit) \in ReservedKeys \/ Len(cleanedValues(q[Head(visit)])) = 0
    THEN listFilters(q, Tail(visit), acc)
    ELSE listFilters(q, Tail(visit),
                     [k \in DOMAIN acc \cup {Head(visit)} |->
                         IF k = Head(visit) THEN cleanedValues(q[k]) ELSE acc[k]])

\* What List did: the status it responded with and its call of Paginate, if
\* it made one.
Listed(status, call) == [status |-> status, call |-> call]

PaginateCall(page, size, fs, os) ==
    [page |-> page, size |-> size, filters |-> fs, orders |-> os]

\* List on the query q; svcFails tells whether the service's Paginate fails.
list(q, visit, svcFails) ==
    IF ~Atoi(DefaultQuery(q, sPage, <<"1">>)).ok \/ Atoi(DefaultQuery(q, sPage, <<"1">>)).value < 1
    THEN Listed(400, <<>>)
    ELSE IF ~Atoi(DefaultQuery(q, sSize, <<"1", "0">>)).ok
            \/ Atoi(DefaultQuery(q, sSize, <<"1", "0">>)).value <= 0
    THEN Listed(400, <<>>)
    ELSE Listed(IF svcFails THEN 500 ELSE 200,
                <<PaginateCall(Atoi(DefaultQuery(q, sPage, <<"1">>)).value,
                               Atoi(DefaultQuery(q, sSize, <<"1", "0">>)).value,
                               listFilters(q, visit, <<>>),
                               parseOrderOptions(q))>>)

(***************************************************************************)
(* Specification SpecList: one List request.                               *)
(***************************************************************************)
QueryKeys == {sPage, sSize, sOrder, sSort, sOrderUnder, sOrderBy, sA}

QueryValueLists(k) ==
    IF k \in {sPage, sSize} THEN {<<<<"2">>>>, <<<<"0">>>>, <<<<"x">>>>}
    ELSE IF k = sA THEN {<<<<"1">>>>, <<<<" ">>>>, <<<<" ">>, <<" ", "1">>>>}
    ELSE {<<sA>>, <<<<"-">> \o sB, sA \o <<" ">> \o sDesc>>, <<<<" ">>>>}

RECURSIVE QueriesOver(_)
QueriesOver(K) ==
    IF K = {} THEN {<<>>}
    ELSE LET k == CHOOSE x \in K : TRUE
         IN  {[j \in K |-> IF j = k THEN vals ELSE q[j]] :
                  vals \in QueryValueLists(k), q \in QueriesOver(K \ {k})}

RawQueries == UNION {QueriesOver(K) : K \in KeySetsUpTo(QueryKeys, MaxQueryKeys)}

InitList ==
    /\ rtype = "User"
    /\ rows = {}
    /\ autoInc = 1
    /\ last = NoCall
    /\ IdlePure
    /\ IdleLock

List ==
    /\ last = NoCall
    /\ \E q \in RawQueries, svcFails \in BOOLEAN :
          \E visit \in VisitOrders(DOMAIN q) :
              LET o == list(q, visit, svcFails)
              IN  last' = [op |-> "List", arg |-> q, status |-> o.status, call |-> o.call,
                           raw |-> rawOrdersOf(q, OrderKeys)]
    /\ UNCHANGED <<rtype, rows, autoInc, pureVars, lockVars>>

NextList == List

SpecList == InitList /\ [][NextList]_vars

(***************************************************************************)
(* C17.  The reserved keys of List.                                        *)
(***************************************************************************)
\* The values the request gave the key k, none without the key.
Supplied(q, k) == IF k \in DOMAIN q THEN q[k] ELSE <<>>

\* The directives that parse, parsed, in the order of the directives.
RECURSIVE OptionsOf(_)
OptionsOf(raws) ==
    IF raws = <<>> THEN <<>>
    ELSE (IF parseOrderOption(raws[1]).ok THEN <<parseOrderOption(raws[1]).opt>> ELSE <<>>)
         \o OptionsOf(Tail(raws))

\* C17: the raw ordering directives of a List request are the values of
\* order, then sort, then order_by, then orderBy, each key's values in the
\* order supplied, however the query map is visited; and when List calls
\* Paginate, none of page, size, order, sort, order_by and orderBy is a key of
\* the filter map, and the order options are those of the raw directives.
C17_ReservedKeys ==
    (last.op = "List") =>
        /\ last.raw = Supplied(last.arg, sOrder) \o Supplied(last.arg, sSort)
                      \o Supplied(last.arg, sOrderUnder) \o Supplied(last.arg, sOrderBy)
        /\ last.call # <<>> =>
            /\ DOMAIN last.call[1].filters \cap
                   {sPage, sSize, sOrder, sSort, sOrderUnder, sOrderBy} = {}
            /\ last.call[1].orders =
               OptionsOf(Supplied(last.arg, sOrder) \o Supplied(last.arg, sSort)
                         \o Supplied(last.arg, sOrderUnder) \o Supplied(last.arg, sOrderBy))

\* A request with orderBy=a, order=-b and order=a desc, and a=1: Paginate
\* was called with the filter a alone and the orders b descending, a
\* descending, a ascending.
C17_Witness ==
    /\ last.op = "List"
    /\ DOMAIN last.arg = {sOrder, sOrderBy, sA}
    /\ last.arg[sOrder] = <<<<"-">> \o sB, sA \o <<" ">> \o sDesc>>
    /\ last.raw = <<<<"-">> \o sB, sA \o <<" ">> \o sDesc, sA>>
    /\ last.call # <<>>
    /\ DOMAIN last.call[1].filters = {sA}
    /\ last.call[1].orders =
           <<[Column |-> sB, Desc |-> TRUE], [Column |-> sA, Desc |-> TRUE],
             [Column |-> sA, Desc |-> FALSE]>>

(***************************************************************************)
(* distlock.Do.  Concurrent invocations of Do on one key, against one      *)
(* Redis server.  Time passes in ticks; a key set with ttl expires when    *)
(* ttl ticks have passed.                                                  *)
(***************************************************************************)
Invocations == 1..MaxInvocations

\* uuid.NewString(): a value no other invocation draws.
LockVal(i) == i

ErrNilClient == "redis client is nil"
ErrRedis     == "redis error"

\* The results of Do.
Returned(ok, err) == <<[ok |-> ok, err |-> err]>>

\* SET key val NX with an expiry: creates the key when it is absent.
setNXOverwrites(kv, val, ttl) == [ok |-> TRUE, kv |-> <<[val |-> val, left |-> ttl]>>]

\* client.SetNX(ctx, lockKey, lockVal, ttl) on the server.
setNX(kv, val, ttl) ==
    IF kv = <<>> THEN [ok |-> TRUE, kv |-> <<[val |-> val, left |-> ttl]>>]
    ELSE [ok |-> FALSE, kv |-> kv]

\* A release that deletes the key whatever it holds.
releaseScriptAnyValue(kv, val) == <<>>

\* releaseScript on the server: DEL when GET returns the value.
releaseScript(kv, val) ==
    IF kv # <<>> /\ kv[1].val = val THEN <<>> ELSE kv

\* An invocation that has not been made.
NotInvoked ==
    [pc |-> "idle", locked |-> FALSE, setnx |-> "", runs |-> 0, lapsed |-> "",
     release |-> "", ret |-> <<>>]

\* The ways a request to Redis fails: it is lost before the server runs it, or
\* the server runs it and its reply is lost.
RedisFaults == {"none", "request", "reply"}

LockTtls == -1..MaxTtl

InitLock ==
    /\ redisKey = <<>>
    /\ inv = [i \in Invocations |-> NotInvoked]
    /\ IdlePure /\ IdleStore

\* Do up to the answer of SetNX (lines 22-39), and the start of the task.
\* The invocations are numbered in the order in which they are made.
Do(i) ==
    /\ inv[i].pc = "idle"
    /\ \A j \in 1..(i - 1) : inv[j].pc # "idle"
    /\ \E nilClient \in BOOLEAN, ttl \in LockTtls, fault \in RedisFaults :
          IF nilClient
          THEN /\ inv' = [inv EXCEPT ![i].pc = "done", ![i].locked = ttl > 0,
                                     ![i].ret = Returned(FALSE, ErrNilClient)]
               /\ UNCHANGED redisKey
          ELSE IF ttl <= 0
          THEN /\ inv' = [inv EXCEPT ![i].pc = "task", ![i].runs = @ + 1]
               /\ UNCHANGED redisKey
          ELSE IF fault # "none"
          THEN /\ inv' = [inv EXCEPT ![i].pc = "done", ![i].locked = TRUE,
                                     ![i].setnx = "error",
                                     ![i].ret = Returned(FALSE, ErrRedis)]
               /\ redisKey' = IF fault = "reply" THEN setNX(redisKey, LockVal(i), ttl).kv
                              ELSE redisKey
          ELSE IF ~setNX(redisKey, LockVal(i), ttl).ok
          THEN /\ inv' = [inv EXCEPT ![i].pc = "done", ![i].locked = TRUE,
                                     ![i].setnx = "present",
                                     ![i].ret = Returned(FALSE, Nil)]
               /\ redisKey' = setNX(redisKey, LockVal(i), ttl).kv
          ELSE /\ inv' = [inv EXCEPT ![i].pc = "task", ![i].locked = TRUE,
                                     ![i].setnx = "created", ![i].runs = @ + 1]
               /\ redisKey' = setNX(redisKey, LockVal(i), ttl).kv
    /\ UNCHANGED <<pureVars, storeVars>>

\* The task returns (lines 26-27 and 45-46); with a lock the deferred release
\* is next.
TaskReturns(i) ==
    /\ inv[i].pc = "task"
    /\ inv' = IF ~inv[i].locked
              THEN [inv EXCEPT ![i].pc = "done", ![i].ret = Returned(TRUE, Nil)]
              ELSE [inv EXCEPT ![i].pc = "release"]
    /\ UNCHANGED <<redisKey, pureVars, storeVars>>

\* The deferred release (lines 41-43), whose result and error are discarded,
\* and the return of Do.
Release(i) ==
    /\ inv[i].pc = "release"
    /\ \E fault \in RedisFaults :
          /\ redisKey' = IF fault = "request" THEN redisKey
                         ELSE releaseScript(redisKey, LockVal(i))
          /\ inv' = [inv EXCEPT ![i].pc = "done",
                                ![i].release = IF fault = "request" THEN "failed" ELSE "ran",
                                ![i].ret = Returned(TRUE, Nil)]
    /\ UNCHANGED <<pureVars, storeVars>>

\* A tick of the server's clock: the key has one tick less to live, and is
\* gone when none is left.  An invocation that is still in Do when the key it
\* created expires is marked with where it was.
Tick ==
    /\ redisKey # <<>>
    /\ redisKey' = IF redisKey[1].left = 1 THEN <<>>
                   ELSE <<[redisKey[1] EXCEPT !.left = @ - 1]>>
    /\ inv' = IF redisKey[1].left = 1 /\ inv[redisKey[1].val].pc \in {"task", "release"}
              THEN [inv EXCEPT ![redisKey[1].val].lapsed = inv[redisKey[1].val].pc]
              ELSE inv
    /\ UNCHANGED <<pureVars, storeVars>>

NextLock ==
    \/ \E i \in Invocations : Do(i)
    \/ \E i \in Invocations : TaskReturns(i)
    \/ \E i \in Invocations : Release(i)
    \/ Tick

SpecLock == InitLock /\ [][NextLock]_vars

(***************************************************************************)
(* C21.  One task at a time.                                               *)
(***************************************************************************)
\* The invocations made with ttl > 0.
Locking == {i \in Invocations : inv[i].locked}

\* The invocations whose task is executing.
Executing == {i \in Locking : inv[i].pc = "task"}

\* C21: among the invocations of Do on one key with ttl > 0, an invocation
\* has run its task only if its SetNX created the key, and then exactly once:
\* it is running it or has run it to the end; an invocation that found the key
\* present has returned (false, nil) and has not run its task; and as long as
\* no lock has expired while its holder's task was running, at most one task
\* is executing.
C21_OneTaskAtATime ==
    (inv # <<>>) =>
        /\ \A i \in Locking :
              /\ inv[i].runs = (IF inv[i].setnx = "created" THEN 1 ELSE 0)
              /\ inv[i].pc \in {"task", "release"} => inv[i].setnx = "created"
              /\ inv[i].setnx = "present" =>
                    inv[i].pc = "done" /\ inv[i].ret = Returned(FALSE, Nil)
        /\ (\A i \in Locking : inv[i].lapsed # "task") => Cardinality(Executing) <= 1

\* Three invocations with ttl > 0 and no expiry: one is executing its task,
\* one has run its task and returned, and one found the key present and
\* returned (false, nil).
C21_Witness ==
    /\ inv # <<>>
    /\ Locking = Invocations
    /\ \A i \in Locking : inv[i].lapsed = ""
    /\ \E i, j, k \in Locking :
          /\ inv[i].pc = "task" /\ redisKey # <<>> /\ redisKey[1].val = LockVal(i)
          /\ inv[j].pc = "done" /\ inv[j].setnx = "created" /\ inv[j].runs = 1
          /\ inv[k].pc = "done" /\ inv[k].setnx = "present" /\ inv[k].runs = 0

(***************************************************************************)
(* C22.  The release deletes only the invocation's own lock.               *)
(***************************************************************************)
\* The key holds the value the invocation i wrote.
HoldsKey(kv, i) == kv # <<>> /\ kv[1].val = LockVal(i)

\* The step is the release of the invocation i and its return.
Releases(i) == inv[i].pc = "release" /\ inv'[i].pc = "done"

\* C22 as stated: a release step leaves the key as it is when the key does
\* not hold the invocation's own value, and when the key still holds it (the
\* lock did not expire) the key is absent once the invocation has returned.
C22_AsStated ==
    [][\A i \in Invocations : Releases(i) =>
          /\ ~HoldsKey(redisKey, i) => redisKey' = redisKey
          /\ HoldsKey(redisKey, i) => redisKey' = <<>>]_vars

\* C22: a release step changes the key only when the key holds the
\* invocation's own value, and then deletes it if the release script ran on
\* the server; when the release request did not reach the server the key is
\* left as it is.  So an invocation that has returned after its release script
\* ran no longer holds the key.
C22_ReleaseOwnLockOnly ==
    /\ [][\A i \in Invocations : Releases(i) =>
             /\ ~HoldsKey(redisKey, i) => redisKey' = redisKey
             /\ (HoldsKey(redisKey, i) /\ inv'[i].release = "ran") => redisKey' = <<>>
             /\ inv'[i].release = "failed" => redisKey' = redisKey]_vars
    /\ [](inv # <<>> =>
             \A i \in Invocations :
                 (inv[i].pc = "done" /\ inv[i].release = "ran") => ~HoldsKey(redisKey, i))

\* The lock of one invocation expired while its task was running, another
\* invocation created the key and is running its task, and the first has
\* released and returned: the key still holds the second's value.
C22_Witness ==
    /\ inv # <<>>
    /\ \E i, j \in Invocations :
          /\ i # j
          /\ inv[i].pc = "done" /\ inv[i].lapsed = "task" /\ inv[i].release = "ran"
          /\ inv[j].pc = "task" /\ inv[j].setnx = "created"
          /\ HoldsKey(redisKey, j)

====
